---- MODULE Spec2Model ----
(***************************************************************************)
(* WizardJam: aim resolution, cooldown-gated projectile dispatch           *)
(* (UAC_CombatComponent) and the projectile hit lifecycle                  *)
(* (ABaseProjectile), together with the goal scoring zone that overlaps    *)
(* projectiles (AQuidditchGoal).                                           *)
(*                                                                         *)
(* Time is counted in steps of 0.1 s (the combat component's tick          *)
(* interval).  Actors are named by strings; "None" is the null pointer and *)
(* "Self" stands for the projectile that receives an overlap.              *)
(***************************************************************************)
EXTENDS Integers, Sequences, FiniteSets, TLC

(* ---------------- bounds of the model ---------------- *)
MaxTime == 5
MaxProjectiles == 2
MaxLifecycles == 1

(* ---------------- program constants (time unit 0.1 s) ---------------- *)
InitialLastFireTime == -10000
\* the score that wins the match (the lowest the setting allows)
WinningScore == 10
\* MatchTimeLimit: 0 is no limit (the default), else seconds
DefaultMatchTimeLimit == 0
MatchTimeLimits == {0, 300}
\* the scores and the published match ends are followed up to these bounds
MaxTotalScore == 25
MaxMatchEnded == 3
MinAimDistance == 50
LocationUpdateThreshold == 10
MaxTraceDistance == 10000
NoTeam == 255

(* ---------------- configuration values explored ---------------- *)
None == "None"
NoInterface == -1
CooldownChoices == {2, 3}
ProjectileClasses == {"BP_Flame", "BP_Spark"}
ClassDamage == [c \in ProjectileClasses |-> IF c = "BP_Flame" THEN 15 ELSE 0]
ClassLifetime == [c \in ProjectileClasses |-> IF c = "BP_Flame" THEN 3 ELSE 2]
TypeNames == {"Flame", "Ice", "Wind"}
NAME_None == "NAME_None"

Actors == {"Launcher", "Pawn", "Wizard1", "Wizard2", "Neutral", "Prop", "Goal"}
Candidates == (Actors \cup {None, "Self"})
OwnerKinds == {"pawn", "actorWithInstigator", "actorNoInstigator"}
LauncherTeams == {NoInterface, NoTeam, 1}

ProjIds == 1..MaxProjectiles

VARIABLES now, launcherValid, ownerKind, launcherTeam,
          FireCooldown, bRespectAimBlocked, DefaultProjectileClass, AimComponent,
          LastFireTime, bWasOnCooldown,
          world, CachedAimData, bAimIsBlocked, PreviousTargetActor, PreviousAimLocation,
          proj, numSpawned, lastDispatch, lastOverlap, tickEvents,
          destroyed, lastAim, lastQuery,
          bAutoUpdateOnTick, AutoUpdateInterval, AutoUpdateTimer, tickSinceAuto,
          SpellOrder, bAutoEquipFirstSpell, unlockedSpells, EquippedSpellType, lastEquip,
          CollectedSpells, spellAnnouncements, lastSpellCall,
          MatchTimeLimit, MatchTimerHandle, PlayerScore, AIScore, matchEnded

combatVars == <<FireCooldown, bRespectAimBlocked, DefaultProjectileClass, AimComponent,
                LastFireTime, bWasOnCooldown>>
aimVars == <<CachedAimData, bAimIsBlocked, PreviousTargetActor, PreviousAimLocation>>
\* the aim component's auto-update: two settings, its timer, and (history) the tick
\* time that went by since the last automatic update
autoVars == <<bAutoUpdateOnTick, AutoUpdateInterval, AutoUpdateTimer, tickSinceAuto>>
\* ABasePlayer's spell switching: the slot order, the auto-equip setting, what the
\* spell collection component reports as unlocked, the equipped spell, and what the
\* last step's call did
playerVars == <<SpellOrder, bAutoEquipFirstSpell, unlockedSpells, EquippedSpellType, lastEquip>>
\* AWizardJamGameMode's spell tracking: the set of collected types, (history) the
\* new-spell events published so far, and what the last step's callback did
\* AWizardJamGameMode's match: the configured time limit, whether the one-shot match
\* timer is pending, the two scores, and (history) the winners published with
\* OnMatchEnded so far (TRUE: the player won)
matchVars == <<MatchTimeLimit, MatchTimerHandle, PlayerScore, AIScore, matchEnded>>
gameModeVars == <<CollectedSpells, spellAnnouncements, lastSpellCall, matchVars>>
vars == <<now, launcherValid, ownerKind, launcherTeam, combatVars, world, aimVars,
          proj, numSpawned, lastDispatch, lastOverlap, tickEvents, destroyed, lastAim,
          lastQuery, autoVars, playerVars, gameModeVars>>

(* ======================= teams ======================= *)
\* GetGenericTeamId of each actor, NoInterface when the actor is no team agent
TeamOf(a) ==
    CASE a = "Launcher" -> launcherTeam
      [] a = "Pawn"     -> launcherTeam
      [] a = "Wizard1"  -> 1
      [] a = "Wizard2"  -> 2
      [] a = "Neutral"  -> NoTeam
      [] a = "Goal"     -> 1
      [] OTHER          -> NoInterface

(* ======================= ABaseProjectile ======================= *)
NoProjectile ==
    [spawned |-> FALSE, alive |-> FALSE, cls |-> None, Damage |-> 0, expireAt |-> 0,
     timerActive |-> FALSE, bound |-> FALSE, bDidHitSomething |-> FALSE,
     Owner |-> None, CachedOwner |-> None, CachedInstigator |-> None,
     log |-> <<>>, cause |-> "none", dueAtHit |-> FALSE]

\* TWeakObjectPtr::Get(): a destroyed actor reads as null
WeakGet(a) == IF (a = "Launcher" /\ ~launcherValid) \/ a \in destroyed THEN None ELSE a

\* constructor + BeginPlay: bind the overlap delegate, start the lifetime timer
ProjectileBeginPlay(cls, owner) ==
    [NoProjectile EXCEPT !.spawned = TRUE, !.alive = TRUE, !.cls = cls,
                         !.Damage = ClassDamage[cls],
                         !.expireAt = now + ClassLifetime[cls],
                         !.timerActive = TRUE, !.bound = TRUE, !.Owner = owner]

\* the instigator InitializeProjectile caches for an owning actor
InstigatorOf(owner) ==
    IF owner = None THEN None
    ELSE IF ownerKind = "pawn" THEN owner
    ELSE IF ownerKind = "actorWithInstigator" THEN "Pawn"
    ELSE None

InitializeProjectile(pr, OwningActor) ==
    [pr EXCEPT !.CachedOwner = OwningActor, !.Owner = OwningActor,
               !.CachedInstigator = InstigatorOf(OwningActor)]

\* EndPlay that reports 'did not hit' whatever happened
EndPlay_FlagFalse(pr) ==
    [pr EXCEPT !.timerActive = FALSE,
               !.log = Append(@, <<"OnProjectileDestroyed", FALSE>>),
               !.bound = FALSE]

EndPlay(pr) ==
    [pr EXCEPT !.timerActive = FALSE,
               !.log = Append(@, <<"OnProjectileDestroyed", pr.bDidHitSomething>>),
               !.bound = FALSE]

\* AActor::Destroy as the projectile uses it: EndPlay runs once, on a live actor
Destroy(pr, why) ==
    IF pr.alive
    THEN [EndPlay(pr) EXCEPT !.alive = FALSE, !.cause = why]
    ELSE pr

IsFriendlyActor(pr, OtherActor) ==
    IF OtherActor = None THEN FALSE
    ELSE LET OwnerTeam == IF WeakGet(pr.CachedOwner) # None
                             /\ TeamOf(pr.CachedOwner) # NoInterface
                          THEN TeamOf(pr.CachedOwner) ELSE NoTeam
         IN IF TeamOf(OtherActor) = NoInterface THEN FALSE
            ELSE IF OwnerTeam = NoTeam \/ TeamOf(OtherActor) = NoTeam THEN FALSE
            ELSE OwnerTeam = TeamOf(OtherActor)

\* ApplyDamage that hands the damage to the struck actor without a damage causer
ApplyDamage_NoCauser(pr, HitActor) ==
    LET called == [pr EXCEPT !.log = Append(@, <<"ApplyDamage", HitActor>>)]
    IN IF HitActor = None \/ pr.Damage <= 0 THEN called
       ELSE [called EXCEPT !.log = Append(@, <<"TakeDamage", HitActor, pr.Damage,
                                               WeakGet(pr.CachedInstigator), None>>)]

ApplyDamage(pr, HitActor) ==
    LET called == [pr EXCEPT !.log = Append(@, <<"ApplyDamage", HitActor>>)]
    IN IF HitActor = None \/ pr.Damage <= 0 THEN called
       ELSE [called EXCEPT !.log = Append(@, <<"TakeDamage", HitActor, pr.Damage,
                                               WeakGet(pr.CachedInstigator),
                                               WeakGet(pr.CachedOwner)>>)]

\* HandleHit without its final Destroy()
HandleHit_NoDestroy(pr, HitActor) ==
    LET damaged == IF HitActor # None THEN ApplyDamage(pr, HitActor) ELSE pr
        impact  == [damaged EXCEPT !.log = Append(@, <<"SpawnImpactEffect">>)]
    IN [impact EXCEPT !.log = Append(@, <<"OnProjectileHit", HitActor>>)]

\* HandleHit that publishes the hit event before it applies the damage
HandleHit_EventFirst(pr, HitActor) ==
    LET hit     == [pr EXCEPT !.log = Append(@, <<"OnProjectileHit", HitActor>>)]
        damaged == IF HitActor # None THEN ApplyDamage(hit, HitActor) ELSE hit
        impact  == [damaged EXCEPT !.log = Append(@, <<"SpawnImpactEffect">>)]
    IN Destroy(impact, "hit")

HandleHit(pr, HitActor) ==
    LET damaged == IF HitActor # None THEN ApplyDamage(pr, HitActor) ELSE pr
        impact  == [damaged EXCEPT !.log = Append(@, <<"SpawnImpactEffect">>)]
        hit     == [impact EXCEPT !.log = Append(@, <<"OnProjectileHit", HitActor>>)]
    IN Destroy(hit, "hit")

\* the ignore checks without the one for the cached instigator
IsIgnoredOverlap_NoInstigator(pr, OtherActor) ==
    \/ OtherActor = None \/ OtherActor = "Self"
    \/ OtherActor = WeakGet(pr.CachedOwner)

\* the checks of OnOverlapBegin that let a candidate pass without effect
IsIgnoredOverlap(pr, OtherActor) ==
    \/ OtherActor = None \/ OtherActor = "Self"
    \/ OtherActor = WeakGet(pr.CachedOwner)
    \/ OtherActor = WeakGet(pr.CachedInstigator)

OnOverlapBegin(pr, OtherActor) ==
    IF IsIgnoredOverlap(pr, OtherActor) THEN pr
    ELSE IF IsFriendlyActor(pr, OtherActor) THEN pr
    ELSE HandleHit([pr EXCEPT !.bDidHitSomething = TRUE,
                              !.dueAtHit = (pr.timerActive /\ now >= pr.expireAt)],
                   OtherActor)

OnLifetimeExpired(pr) == Destroy(pr, "timeout")

\* AQuidditchGoal::OnScoringZoneBeginOverlap: the goal destroys the projectile
OnScoringZoneBeginOverlap(pr) ==
    IF pr.Owner = None THEN pr ELSE Destroy(pr, "goal")

(* ======================= vectors ======================= *)
\* positions and directions lie in the vertical plane through the aim ray: <<forward, up>>.
\* A unit vector is represented by the primitive integer vector of its direction.
ZeroVector == <<0, 0>>
ForwardVector == <<1, 0>>

VecAdd(a, b) == <<a[1] + b[1], a[2] + b[2]>>
VecSub(a, b) == <<a[1] - b[1], a[2] - b[2]>>
VecScale(v, k) == <<v[1] * k, v[2] * k>>
DotProduct(a, b) == a[1] * b[1] + a[2] * b[2]
SizeSquared(v) == DotProduct(v, v)
DistSquared(a, b) == SizeSquared(VecSub(a, b))
Abs(x) == IF x >= 0 THEN x ELSE 0 - x

RECURSIVE Gcd(_, _)
Gcd(a, b) == IF b = 0 THEN a ELSE Gcd(b, a % b)

\* FVector::GetSafeNormal: the direction of v, and the zero vector for a zero v
GetSafeNormal(v) ==
    IF v = ZeroVector THEN ZeroVector
    ELSE LET g == Gcd(Abs(v[1]), Abs(v[2]))
         IN <<v[1] \div g, v[2] \div g>>

(* ======================= UAC_AimComponent ======================= *)
\* what the line trace of PerformAimTrace would return in the current world: the
\* owner stands at Origin facing forward; a hit at distance 0 is a trace that starts
\* inside a blocking object
WorldViews ==
    { [bHit |-> FALSE, HitActor |-> None,      Distance |-> MaxTraceDistance, Origin |-> ZeroVector],
      [bHit |-> FALSE, HitActor |-> None,      Distance |-> MaxTraceDistance, Origin |-> <<200, 0>>],
      [bHit |-> TRUE,  HitActor |-> "Prop",    Distance |-> 30,  Origin |-> ZeroVector],
      [bHit |-> TRUE,  HitActor |-> "Prop",    Distance |-> 0,   Origin |-> ZeroVector],
      [bHit |-> TRUE,  HitActor |-> "Wizard2", Distance |-> 497, Origin |-> ZeroVector],
      [bHit |-> TRUE,  HitActor |-> "Wizard2", Distance |-> 500, Origin |-> ZeroVector],
      [bHit |-> TRUE,  HitActor |-> "Wizard2", Distance |-> 508, Origin |-> ZeroVector],
      [bHit |-> TRUE,  HitActor |-> "Wizard2", Distance |-> 516, Origin |-> ZeroVector],
      [bHit |-> TRUE,  HitActor |-> "Wizard1", Distance |-> 500, Origin |-> ZeroVector],
      [bHit |-> TRUE,  HitActor |-> "Neutral", Distance |-> 500, Origin |-> ZeroVector],
      [bHit |-> TRUE,  HitActor |-> "Goal",    Distance |-> 500, Origin |-> ZeroVector],
      [bHit |-> TRUE,  HitActor |-> None,      Distance |-> 500, Origin |-> ZeroVector] }

InteractableActorTags == {"Interactable"}
FriendlyActorTags == {"Friendly"}
\* actor tags set in the level: a goal is interactable, Wizard1 is tagged friendly,
\* Neutral carries both tags
TagsOf(a) ==
    CASE a = "Goal"    -> {"Interactable"}
      [] a = "Wizard1" -> {"Friendly"}
      [] a = "Neutral" -> {"Interactable", "Friendly"}
      [] OTHER         -> {}

ActorHasAnyTag(Actor, Tags) == Actor # None /\ (TagsOf(Actor) \cap Tags) # {}

\* IGenericTeamAgentInterface::GetTeamAttitudeTowards with the engine's default
\* attitude solver: equal team ids are friendly, different ones hostile
GetTeamAttitudeTowards(HitActor) ==
    IF TeamOf(HitActor) = NoInterface THEN "Neutral"
    ELSE IF launcherTeam = TeamOf(HitActor) THEN "Friendly" ELSE "Hostile"

\* the friendly tag tested before the interactable tag
ClassifyHitActor_FriendlyFirst(HitActor) ==
    IF HitActor = None THEN "World"
    ELSE IF ActorHasAnyTag(HitActor, FriendlyActorTags) THEN "Friendly"
    ELSE IF ActorHasAnyTag(HitActor, InteractableActorTags) THEN "Interactable"
    ELSE IF launcherTeam # NoInterface /\ TeamOf(HitActor) # NoInterface
         THEN (IF GetTeamAttitudeTowards(HitActor) = "Friendly" THEN "Friendly"
               ELSE IF GetTeamAttitudeTowards(HitActor) = "Hostile" THEN "Enemy"
               ELSE "World")
    ELSE "World"

ClassifyHitActor(HitActor) ==
    IF HitActor = None THEN "World"
    ELSE IF ActorHasAnyTag(HitActor, InteractableActorTags) THEN "Interactable"
    ELSE IF ActorHasAnyTag(HitActor, FriendlyActorTags) THEN "Friendly"
    ELSE IF launcherTeam # NoInterface /\ TeamOf(HitActor) # NoInterface
         THEN (IF GetTeamAttitudeTowards(HitActor) = "Friendly" THEN "Friendly"
               ELSE IF GetTeamAttitudeTowards(HitActor) = "Hostile" THEN "Enemy"
               ELSE "World")
    ELSE "World"

\* FAimTraceData(): the snapshot before any trace
DefaultAimTraceData ==
    [bDidHit |-> FALSE, AimLocation |-> ZeroVector, AimDirection |-> ForwardVector,
     HitActor |-> None, HitDistance |-> 0, TraceResult |-> "Nothing", Timestamp |-> 0]

\* a trace that leaves the default aim location in place when it hits nothing
PerformAimTrace_MissKeepsDefault(w) ==
    LET TraceStart == w.Origin
        ImpactPoint == VecAdd(TraceStart, VecScale(ForwardVector, w.Distance))
        AimLocation == IF w.bHit THEN ImpactPoint ELSE ZeroVector
        AimDirection == GetSafeNormal(VecSub(AimLocation, w.Origin))
    IN IF w.bHit
       THEN [bDidHit |-> TRUE, AimLocation |-> AimLocation, AimDirection |-> AimDirection,
             HitActor |-> w.HitActor, HitDistance |-> w.Distance,
             TraceResult |-> ClassifyHitActor(w.HitActor), Timestamp |-> now]
       ELSE [bDidHit |-> FALSE, AimLocation |-> AimLocation, AimDirection |-> AimDirection,
             HitActor |-> None, HitDistance |-> MaxTraceDistance,
             TraceResult |-> "Nothing", Timestamp |-> now]

\* the trace runs from the owner's location along its forward vector
PerformAimTrace(w) ==
    LET TraceStart == w.Origin
        TraceEnd == VecAdd(TraceStart, VecScale(ForwardVector, MaxTraceDistance))
        ImpactPoint == VecAdd(TraceStart, VecScale(ForwardVector, w.Distance))
        AimLocation == IF w.bHit THEN ImpactPoint ELSE TraceEnd
        AimDirection == GetSafeNormal(VecSub(AimLocation, w.Origin))
    IN IF w.bHit
       THEN [bDidHit |-> TRUE, AimLocation |-> AimLocation, AimDirection |-> AimDirection,
             HitActor |-> w.HitActor, HitDistance |-> w.Distance,
             TraceResult |-> ClassifyHitActor(w.HitActor), Timestamp |-> now]
       ELSE [bDidHit |-> FALSE, AimLocation |-> AimLocation, AimDirection |-> AimDirection,
             HitActor |-> None, HitDistance |-> MaxTraceDistance,
             TraceResult |-> "Nothing", Timestamp |-> now]

\* BroadcastChanges that publishes a location but forgets to remember it
BroadcastChanges_LocationNotStored(NewData) ==
    LET OldTarget == WeakGet(PreviousTargetActor)
        targetChanged == OldTarget # NewData.HitActor
        locChanged == DistSquared(PreviousAimLocation, NewData.AimLocation)
                          > LocationUpdateThreshold * LocationUpdateThreshold
    IN [target |-> IF targetChanged THEN NewData.HitActor ELSE PreviousTargetActor,
        location |-> PreviousAimLocation,
        events |-> (IF targetChanged
                    THEN << <<"OnAimTargetChanged", NewData.HitActor, NewData.TraceResult>> >>
                    ELSE <<>>)
                   \o (IF locChanged
                       THEN << <<"OnAimLocationUpdated", NewData.AimLocation,
                                 NewData.AimDirection>> >>
                       ELSE <<>>)]

\* BroadcastChanges that measures the move of the aim location from the snapshot
\* before the call rather than from the location announced last
BroadcastChanges_FromSnapshot(NewData) ==
    LET OldTarget == WeakGet(PreviousTargetActor)
        targetChanged == OldTarget # NewData.HitActor
        locChanged == DistSquared(CachedAimData.AimLocation, NewData.AimLocation)
                          > LocationUpdateThreshold * LocationUpdateThreshold
    IN [target |-> IF targetChanged THEN NewData.HitActor ELSE PreviousTargetActor,
        location |-> IF locChanged THEN NewData.AimLocation ELSE PreviousAimLocation,
        events |-> (IF targetChanged
                    THEN << <<"OnAimTargetChanged", NewData.HitActor, NewData.TraceResult>> >>
                    ELSE <<>>)
                   \o (IF locChanged
                       THEN << <<"OnAimLocationUpdated", NewData.AimLocation,
                                 NewData.AimDirection>> >>
                       ELSE <<>>)]

\* BroadcastChanges: [target, location, events] after the change detection
BroadcastChanges(NewData) ==
    LET OldTarget == WeakGet(PreviousTargetActor)
        targetChanged == OldTarget # NewData.HitActor
        locChanged == DistSquared(PreviousAimLocation, NewData.AimLocation)
                          > LocationUpdateThreshold * LocationUpdateThreshold
    IN [target |-> IF targetChanged THEN NewData.HitActor ELSE PreviousTargetActor,
        location |-> IF locChanged THEN NewData.AimLocation ELSE PreviousAimLocation,
        events |-> (IF targetChanged
                    THEN << <<"OnAimTargetChanged", NewData.HitActor, NewData.TraceResult>> >>
                    ELSE <<>>)
                   \o (IF locChanged
                       THEN << <<"OnAimLocationUpdated", NewData.AimLocation,
                                 NewData.AimDirection>> >>
                       ELSE <<>>)]

\* RequestAimUpdate that announces the blocked state on every call
RequestAimUpdate_AlwaysAnnounces ==
    LET NewData == PerformAimTrace(world)
        blocked == NewData.bDidHit /\ NewData.HitDistance < MinAimDistance
        bc == BroadcastChanges(NewData)
    IN [data |-> NewData, blocked |-> blocked, target |-> bc.target,
        location |-> bc.location,
        events |-> << <<"OnAimBlocked", blocked>> >> \o bc.events]

\* RequestAimUpdate: the new state of the aim component and the events published
RequestAimUpdate ==
    LET NewData == PerformAimTrace(world)
        blocked == NewData.bDidHit /\ NewData.HitDistance < MinAimDistance
        bc == BroadcastChanges(NewData)
    IN [data |-> NewData, blocked |-> blocked, target |-> bc.target,
        location |-> bc.location,
        events |-> (IF bAimIsBlocked # blocked
                    THEN << <<"OnAimBlocked", blocked>> >> ELSE <<>>) \o bc.events]

\* no RequestAimUpdate call was made by the last step
\* no query was answered by the last step
NoQuery == [op |-> "none", arg |-> None, result |-> None]

\* frame times a tick may bring and intervals a designer may set, in units of 0.025 s
\* (the interval defaults to 0.05 s and is clamped to at least 0.016 s)
DeltaTimes == {1, 2, 3}
AutoIntervals == {2, 4}

NoAim ==
    [call |-> FALSE, repeated |-> FALSE, OldData |-> DefaultAimTraceData,
     bWasBlocked |-> FALSE, OldTarget |-> None, OldLocation |-> ZeroVector,
     events |-> <<>>, tick |-> FALSE, DeltaTime |-> 0, calls |-> 0]

(* ======================= UAC_CombatComponent ======================= *)
\* designer-populated map: "Ice" is mapped to a null class, "Wind" is not mapped
ProjectileClassMap == [n \in {"Flame", "Ice"} |-> IF n = "Flame" THEN "BP_Flame" ELSE None]

\* the remaining time without the clamp at zero
GetCooldownRemaining_Unclamped == FireCooldown - (now - LastFireTime)

\* UAC_CombatComponent::GetCooldownRemaining
GetCooldownRemaining ==
    LET Remaining == FireCooldown - (now - LastFireTime)
    IN IF Remaining > 0 THEN Remaining ELSE 0

\* 1 - Remaining / FireCooldown, kept as the fraction <<numerator, denominator>>
GetCooldownProgress ==
    IF FireCooldown <= 0 THEN <<1, 1>>
    ELSE <<FireCooldown - GetCooldownRemaining, FireCooldown>>

\* a CanFire that leaves the aim gate out
CanFire_IgnoresAim ==
    IF now - LastFireTime < FireCooldown THEN FALSE
    ELSE IF DefaultProjectileClass = None THEN FALSE
    ELSE TRUE

\* UAC_CombatComponent::CanFire: cooldown, blocked aim, default class
CanFire ==
    IF now - LastFireTime < FireCooldown THEN FALSE
    ELSE IF bRespectAimBlocked /\ AimComponent /\ bAimIsBlocked THEN FALSE
    ELSE IF DefaultProjectileClass = None THEN FALSE
    ELSE TRUE

\* UAC_CombatComponent::CanFireType: cooldown, blocked aim, a mapped non-null class
CanFireType(TypeName) ==
    IF now - LastFireTime < FireCooldown THEN FALSE
    ELSE IF bRespectAimBlocked /\ AimComponent /\ bAimIsBlocked THEN FALSE
    ELSE TypeName \in DOMAIN ProjectileClassMap /\ ProjectileClassMap[TypeName] # None

\* no overlap was delivered by the last step
NoOverlap ==
    [p |-> 0, OtherActor |-> None, ignored |-> FALSE,
     friendly |-> FALSE, received |-> FALSE]

\* no dispatch was made by the last step
NoDispatch ==
    [call |-> "none", TypeName |-> NAME_None, cls |-> None, time |-> 0,
     prevFire |-> InitialLastFireTime,
     gates |-> [noKind |-> FALSE, cooling |-> FALSE, blocked |-> FALSE],
     spawnOk |-> FALSE, ret |-> 0, FireDirection |-> ZeroVector, events |-> <<>>]

\* BroadcastFireBlocked: the event a rejection publishes
BroadcastFireBlocked(Reason, TypeName) == <<"OnFireBlocked", Reason, TypeName>>

\* what every dispatch records about itself (call, arguments, gates before the call,
\* and the launch direction it hands to InitializeProjectile when it spawns)
DispatchRecord(call, cls, TypeName, spawnOk) ==
    [call |-> call, TypeName |-> TypeName, cls |-> cls,
     time |-> now, prevFire |-> LastFireTime,
     gates |-> [noKind |-> cls = None,
                cooling |-> now - LastFireTime < FireCooldown,
                blocked |-> bRespectAimBlocked /\ AimComponent /\ bAimIsBlocked],
     spawnOk |-> spawnOk, ret |-> 0, FireDirection |-> ZeroVector, events |-> <<>>]

\* a rejection before the aim is refreshed: one fire-blocked event, nothing else
RejectEarly(rec, Reason) ==
    /\ lastDispatch' = [rec EXCEPT !.events = <<BroadcastFireBlocked(Reason, rec.TypeName)>>]
    /\ UNCHANGED <<combatVars, aimVars, proj, numSpawned>>

\* the aim gate applied whether or not the controller respects blocked aim
GateReason_AlwaysRespects(ProjectileClass) ==
    IF ProjectileClass = None THEN "NoProjectileClass"
    ELSE IF now - LastFireTime < FireCooldown THEN "OnCooldown"
    ELSE IF AimComponent /\ bAimIsBlocked THEN "AimBlocked"
    ELSE "Pass"

\* the cooldown test with the boundary shifted: a dispatch at T + C is still refused
GateReason_LateCooldown(ProjectileClass) ==
    IF ProjectileClass = None THEN "NoProjectileClass"
    ELSE IF now - LastFireTime <= FireCooldown THEN "OnCooldown"
    ELSE IF bRespectAimBlocked /\ AimComponent /\ bAimIsBlocked THEN "AimBlocked"
    ELSE "Pass"

\* the cooldown gate tested before the projectile class
GateReason_CooldownFirst(ProjectileClass) ==
    IF now - LastFireTime < FireCooldown THEN "OnCooldown"
    ELSE IF ProjectileClass = None THEN "NoProjectileClass"
    ELSE IF bRespectAimBlocked /\ AimComponent /\ bAimIsBlocked THEN "AimBlocked"
    ELSE "Pass"

\* the three gates of SpawnProjectileInternal, in the order the code tests them
GateReason(ProjectileClass) ==
    IF ProjectileClass = None THEN "NoProjectileClass"
    ELSE IF now - LastFireTime < FireCooldown THEN "OnCooldown"
    ELSE IF bRespectAimBlocked /\ AimComponent /\ bAimIsBlocked THEN "AimBlocked"
    ELSE "Pass"

\* the muzzle: the MuzzlePoint component at MuzzleOffset (60 forward, 70 up) of the owner
MuzzleOffset == <<60, 70>>
CalculateMuzzleLocation == VecAdd(world.Origin, MuzzleOffset)

\* UAC_AimComponent::GetAimDirectionFromLocation: from the start location to the aim
\* point, or the owner's forward vector when that direction is zero or has a dot
\* product below 0.1 with it
GetAimDirectionFromLocation(AimPoint, StartLocation) ==
    LET v == VecSub(AimPoint, StartLocation)
        Direction == GetSafeNormal(v)
        f == DotProduct(Direction, ForwardVector)
        DotBelowTenth == f < 0 \/ 100 * f * f < SizeSquared(Direction)
    IN IF Direction = ZeroVector \/ DotBelowTenth THEN ForwardVector ELSE Direction

\* a launch direction left unset when no aim component is attached
GetFireDirection_NoFallback ==
    IF AimComponent
    THEN GetAimDirectionFromLocation(RequestAimUpdate.data.AimLocation,
                                     CalculateMuzzleLocation)
    ELSE ZeroVector

\* the launch direction: trajectory-corrected from the refreshed aim point, or the
\* owner's forward vector when no aim component is attached
GetFireDirection ==
    IF AimComponent
    THEN GetAimDirectionFromLocation(RequestAimUpdate.data.AimLocation,
                                     CalculateMuzzleLocation)
    ELSE ForwardVector

\* a failed spawn that nevertheless starts the cooldown
SpawnFailedOutcome_StartsCooldown(rec, aimEvents) ==
    /\ lastDispatch' = [rec EXCEPT !.events = aimEvents \o
                          <<BroadcastFireBlocked("SpawnFailed", rec.TypeName)>>]
    /\ LastFireTime' = now
    /\ UNCHANGED <<FireCooldown, bRespectAimBlocked, DefaultProjectileClass, AimComponent,
                   bWasOnCooldown, proj, numSpawned>>

\* SpawnActor returned null: fire-blocked(SpawnFailed), the cooldown is not touched
SpawnFailedOutcome(rec, aimEvents) ==
    /\ lastDispatch' = [rec EXCEPT !.events = aimEvents \o
                          <<BroadcastFireBlocked("SpawnFailed", rec.TypeName)>>]
    /\ UNCHANGED <<combatVars, proj, numSpawned>>

\* a successful spawn that publishes fire-blocked as well
FiredOutcome_AlsoBlocked(rec, aimEvents, ProjectileClass) ==
    LET id == numSpawned + 1
    IN /\ proj' = [proj EXCEPT ![id] =
                     InitializeProjectile(ProjectileBeginPlay(ProjectileClass, "Launcher"),
                                          "Launcher")]
       /\ numSpawned' = id
       /\ LastFireTime' = now
       /\ bWasOnCooldown' = TRUE
       /\ lastDispatch' = [rec EXCEPT !.ret = id, !.FireDirection = GetFireDirection,
                                      !.events = aimEvents \o
                             << <<"OnCooldownStateChanged", TRUE, FireCooldown>>,
                                <<"OnProjectileFired", id, rec.TypeName>>,
                                BroadcastFireBlocked("SpawnFailed", rec.TypeName) >>]
       /\ UNCHANGED <<FireCooldown, bRespectAimBlocked, DefaultProjectileClass, AimComponent>>

\* the projectile was spawned: initialise it, start the cooldown, publish the events
FiredOutcome(rec, aimEvents, ProjectileClass) ==
    LET id == numSpawned + 1
    IN /\ proj' = [proj EXCEPT ![id] =
                     InitializeProjectile(ProjectileBeginPlay(ProjectileClass, "Launcher"),
                                          "Launcher")]
       /\ numSpawned' = id
       /\ LastFireTime' = now
       /\ bWasOnCooldown' = TRUE
       /\ lastDispatch' = [rec EXCEPT !.ret = id, !.FireDirection = GetFireDirection,
                                      !.events = aimEvents \o
                             << <<"OnCooldownStateChanged", TRUE, FireCooldown>>,
                                <<"OnProjectileFired", id, rec.TypeName>> >>]
       /\ UNCHANGED <<FireCooldown, bRespectAimBlocked, DefaultProjectileClass, AimComponent>>

SpawnProjectileInternal(call, ProjectileClass, TypeName, spawnOk) ==
    LET rec == DispatchRecord(call, ProjectileClass, TypeName, spawnOk)
        aim == RequestAimUpdate
        aimEvents == IF AimComponent THEN aim.events ELSE <<>>
        gate == GateReason(ProjectileClass)
    IN IF gate # "Pass" THEN RejectEarly(rec, gate)
       ELSE /\ IF AimComponent
               THEN /\ CachedAimData' = aim.data
                    /\ bAimIsBlocked' = aim.blocked
                    /\ PreviousTargetActor' = aim.target
                    /\ PreviousAimLocation' = aim.location
               ELSE UNCHANGED aimVars
            /\ IF ~spawnOk
               THEN SpawnFailedOutcome(rec, aimEvents)
               ELSE FiredOutcome(rec, aimEvents, ProjectileClass)

\* a dispatch needs a live owner; a successful spawn needs a free projectile slot, and
\* a spawn can only fail in a dispatch that gets as far as spawning
CanDispatch(ProjectileClass, spawnOk) ==
    /\ launcherValid
    /\ IF GateReason(ProjectileClass) = "Pass"
       THEN spawnOk => numSpawned < MaxProjectiles
       ELSE spawnOk

FireProjectileClass(ProjectileClass, spawnOk) ==
    /\ CanDispatch(ProjectileClass, spawnOk)
    /\ SpawnProjectileInternal("FireProjectileClass", ProjectileClass, NAME_None, spawnOk)
    /\ lastOverlap' = NoOverlap /\ tickEvents' = <<>>
    /\ lastAim' = NoAim /\ lastQuery' = NoQuery
    /\ UNCHANGED <<now, launcherValid, ownerKind, launcherTeam, destroyed, world>>
    /\ UNCHANGED <<autoVars, playerVars, gameModeVars>>

FireProjectile(spawnOk) ==
    /\ CanDispatch(DefaultProjectileClass, spawnOk)
    /\ SpawnProjectileInternal("FireProjectile", DefaultProjectileClass, NAME_None, spawnOk)
    /\ lastOverlap' = NoOverlap /\ tickEvents' = <<>>
    /\ lastAim' = NoAim /\ lastQuery' = NoQuery
    /\ UNCHANGED <<now, launcherValid, ownerKind, launcherTeam, destroyed, world>>
    /\ UNCHANGED <<autoVars, playerVars, gameModeVars>>

FireProjectileByType(TypeName, spawnOk) ==
    /\ CanDispatch(IF TypeName \in DOMAIN ProjectileClassMap
                   THEN ProjectileClassMap[TypeName] ELSE None, spawnOk)
    /\ IF TypeName \notin DOMAIN ProjectileClassMap
       THEN RejectEarly(DispatchRecord("FireProjectileByType", None, TypeName, spawnOk),
                        "NoProjectileClass")
       ELSE IF ProjectileClassMap[TypeName] = None
       THEN RejectEarly(DispatchRecord("FireProjectileByType", None, TypeName, spawnOk),
                        "NoProjectileClass")
       ELSE SpawnProjectileInternal("FireProjectileByType", ProjectileClassMap[TypeName],
                                    TypeName, spawnOk)
    /\ lastOverlap' = NoOverlap /\ tickEvents' = <<>>
    /\ lastAim' = NoAim /\ lastQuery' = NoQuery
    /\ UNCHANGED <<now, launcherValid, ownerKind, launcherTeam, destroyed, world>>
    /\ UNCHANGED <<autoVars, playerVars, gameModeVars>>

\* ABasePlayer::HandleFireInput: the fire key of the player who owns the combat
\* component. Without an equipped spell, or when CanFireType refuses the equipped
\* spell, the handler returns and nothing is published; otherwise it dispatches
\* the equipped spell's projectile type.
HandleFireInput(spawnOk) ==
    /\ launcherValid
    /\ IF EquippedSpellType = NAME_None \/ ~CanFireType(EquippedSpellType)
       THEN /\ spawnOk
            /\ lastDispatch' =
                   DispatchRecord("HandleFireInput",
                                  IF EquippedSpellType \in DOMAIN ProjectileClassMap
                                  THEN ProjectileClassMap[EquippedSpellType] ELSE None,
                                  EquippedSpellType, spawnOk)
            /\ UNCHANGED <<combatVars, aimVars, proj, numSpawned>>
       ELSE /\ spawnOk => numSpawned < MaxProjectiles
            /\ SpawnProjectileInternal("HandleFireInput",
                                       ProjectileClassMap[EquippedSpellType],
                                       EquippedSpellType, spawnOk)
    /\ lastOverlap' = NoOverlap /\ tickEvents' = <<>>
    /\ lastAim' = NoAim /\ lastQuery' = NoQuery
    /\ UNCHANGED <<now, launcherValid, ownerKind, launcherTeam, destroyed, world>>
    /\ UNCHANGED <<autoVars, playerVars, gameModeVars>>

(* ---------------- ABatAgent ---------------- *)
\* ABatAgent::SpawnProjectileAtMouth, called by the bat's Attack: here the launcher
\* is the bat. It spawns the projectile with itself as Owner and sets the velocity;
\* it does not call InitializeProjectile, so the projectile's cached owner and
\* instigator stay null. The combat component is not involved.
SpawnProjectileAtMouth(ProjectileClass, Target) ==
    /\ launcherValid /\ ownerKind = "pawn"
    /\ ProjectileClass # None /\ Target # None
    /\ numSpawned < MaxProjectiles
    /\ proj' = [proj EXCEPT ![numSpawned + 1] = ProjectileBeginPlay(ProjectileClass, "Launcher")]
    /\ numSpawned' = numSpawned + 1
    /\ lastDispatch' = NoDispatch /\ lastOverlap' = NoOverlap /\ tickEvents' = <<>>
    /\ lastAim' = NoAim /\ lastQuery' = NoQuery
    /\ UNCHANGED <<now, launcherValid, ownerKind, launcherTeam, destroyed, combatVars, world,
                   aimVars>>
    /\ UNCHANGED <<autoVars, playerVars, gameModeVars>>

(* ---------------- dispatch from inside an event listener ---------------- *)
\* the events published during a dispatch that accepts
ListenerEvents ==
    {"OnAimBlocked", "OnAimTargetChanged", "OnAimLocationUpdated",
     "OnCooldownStateChanged", "OnProjectileFired"}

\* the events RequestAimUpdate publishes, before SpawnProjectileInternal spawns
AimEventNames == {"OnAimBlocked", "OnAimTargetChanged", "OnAimLocationUpdated"}

\* position of the event of a name in a sequence of published events, 0 if absent
EventIndex(events, Event) ==
    IF \E i \in DOMAIN events : events[i][1] = Event
    THEN CHOOSE i \in DOMAIN events : events[i][1] = Event
    ELSE 0

\* the gates of SpawnProjectileInternal as a call made in the middle of another
\* dispatch meets them: with the time of the last fire and the blocked flag that
\* the outer call has written so far
GateReasonAt(ProjectileClass, lastFire, blocked) ==
    IF ProjectileClass = None THEN "NoProjectileClass"
    ELSE IF now - lastFire < FireCooldown THEN "OnCooldown"
    ELSE IF bRespectAimBlocked /\ AimComponent /\ blocked THEN "AimBlocked"
    ELSE "Pass"

\* FireProjectileClass(ProjectileClass) while a listener bound to Event answers the
\* event with FireProjectile(). Multicast delegates call their listeners
\* synchronously, so the nested call runs inside the outer one: in RequestAimUpdate
\* (cache and blocked flag written, LastFireTime not yet) for the aim events, and
\* after LastFireTime = CurrentTime for the other two. Every spawn succeeds.
FireProjectileClass_Listener(ProjectileClass, Event) ==
    LET rec == DispatchRecord("FireProjectileClass", ProjectileClass, NAME_None, TRUE)
        aim == RequestAimUpdate
        aimEvents == IF AimComponent THEN aim.events ELSE <<>>
        early == Event \in AimEventNames
        at == EventIndex(aimEvents, Event)
        delivered == IF early THEN at # 0 ELSE TRUE
        nestedGate == GateReasonAt(DefaultProjectileClass,
                                   IF early THEN LastFireTime ELSE now, aim.blocked)
        nestedFires == delivered /\ nestedGate = "Pass"
        first == numSpawned + 1
        outerId == IF nestedFires /\ early THEN first + 1 ELSE first
        nestedId == IF early THEN first ELSE first + 1
        fired(id) == << <<"OnCooldownStateChanged", TRUE, FireCooldown>>,
                        <<"OnProjectileFired", id, NAME_None>> >>
        blockedEv == <<BroadcastFireBlocked(nestedGate, NAME_None)>>
        head == SubSeq(aimEvents, 1, at)
        tail == SubSeq(aimEvents, at + 1, Len(aimEvents))
        spawn(cls) == InitializeProjectile(ProjectileBeginPlay(cls, "Launcher"), "Launcher")
    IN /\ launcherValid
       /\ GateReason(ProjectileClass) = "Pass"
       /\ numSpawned + (IF nestedFires THEN 2 ELSE 1) <= MaxProjectiles
       /\ IF AimComponent
          THEN /\ CachedAimData' = aim.data
               /\ bAimIsBlocked' = aim.blocked
               /\ PreviousTargetActor' = aim.target
               /\ PreviousAimLocation' = aim.location
          ELSE UNCHANGED aimVars
       /\ proj' = IF nestedFires
                  THEN [proj EXCEPT ![outerId] = spawn(ProjectileClass),
                                    ![nestedId] = spawn(DefaultProjectileClass)]
                  ELSE [proj EXCEPT ![outerId] = spawn(ProjectileClass)]
       /\ numSpawned' = numSpawned + (IF nestedFires THEN 2 ELSE 1)
       /\ LastFireTime' = now
       /\ bWasOnCooldown' = TRUE
       /\ lastDispatch' =
            [rec EXCEPT !.ret = outerId, !.FireDirection = GetFireDirection,
                        !.events =
                IF ~delivered THEN aimEvents \o fired(outerId)
                ELSE IF early
                THEN IF nestedFires
                     THEN head \o tail \o fired(nestedId) \o fired(outerId)
                     ELSE head \o blockedEv \o tail \o fired(outerId)
                ELSE IF Event = "OnCooldownStateChanged"
                THEN << <<"OnCooldownStateChanged", TRUE, FireCooldown>> >>
                     \o (IF nestedFires THEN fired(nestedId) ELSE blockedEv)
                     \o << <<"OnProjectileFired", outerId, NAME_None>> >>
                ELSE fired(outerId)
                     \o (IF nestedFires THEN fired(nestedId) ELSE blockedEv)]
       /\ lastOverlap' = NoOverlap /\ tickEvents' = <<>>
       /\ lastAim' = NoAim /\ lastQuery' = NoQuery
       /\ UNCHANGED <<FireCooldown, bRespectAimBlocked, DefaultProjectileClass, AimComponent>>
       /\ UNCHANGED <<now, launcherValid, ownerKind, launcherTeam, destroyed, world>>
       /\ UNCHANGED <<autoVars, playerVars, gameModeVars>>

SetDefaultProjectileClass(InClass) ==
    /\ launcherValid
    /\ DefaultProjectileClass # InClass
    /\ DefaultProjectileClass' = InClass
    /\ lastAim' = NoAim /\ lastQuery' = NoQuery
    /\ UNCHANGED <<now, launcherValid, ownerKind, launcherTeam, destroyed, FireCooldown,
                   bRespectAimBlocked, AimComponent, LastFireTime, bWasOnCooldown,
                   world, aimVars, proj, numSpawned>>
    /\ lastDispatch' = NoDispatch /\ lastOverlap' = NoOverlap /\ tickEvents' = <<>>
    /\ UNCHANGED <<autoVars, playerVars, gameModeVars>>

\* UAC_CombatComponent::TickComponent: publish a change of the cooldown state
TickComponent ==
    /\ launcherValid
    /\ LET bIsOnCooldown == GetCooldownRemaining > 0
       IN IF bIsOnCooldown # bWasOnCooldown
          THEN /\ bWasOnCooldown' = bIsOnCooldown
               /\ tickEvents' = << <<"OnCooldownStateChanged", bIsOnCooldown,
                                     GetCooldownRemaining>> >>
          ELSE /\ bWasOnCooldown' = bWasOnCooldown
               /\ tickEvents' = <<>>
    /\ lastAim' = NoAim /\ lastQuery' = NoQuery
    /\ UNCHANGED <<now, launcherValid, ownerKind, launcherTeam, destroyed, FireCooldown,
                   bRespectAimBlocked, DefaultProjectileClass, AimComponent, LastFireTime,
                   world, aimVars, proj, numSpawned>>
    /\ lastDispatch' = NoDispatch /\ lastOverlap' = NoOverlap
    /\ UNCHANGED <<autoVars, playerVars, gameModeVars>>

(* ======================= the world and the clock ======================= *)
\* the physics delivers an overlap between a moving projectile and a candidate:
\* the projectile's own handler runs first, then the goal's scoring-zone handler
Overlap(p, OtherActor) ==
    /\ proj[p].alive /\ proj[p].bound
    /\ OtherActor = "Launcher" => launcherValid
    /\ OtherActor = "Pawn" => ownerKind # "pawn"
    /\ LET pr == proj[p]
           mine == OnOverlapBegin(pr, OtherActor)
           last == IF OtherActor = "Goal" THEN OnScoringZoneBeginOverlap(mine) ELSE mine
       IN /\ proj' = [proj EXCEPT ![p] = last]
          /\ lastOverlap' = [p |-> p, OtherActor |-> OtherActor,
                             ignored |-> IsIgnoredOverlap(pr, OtherActor),
                             friendly |-> IsFriendlyActor(pr, OtherActor),
                             received |-> TRUE]
    /\ lastDispatch' = NoDispatch /\ tickEvents' = <<>>
    /\ lastAim' = NoAim /\ lastQuery' = NoQuery
    /\ UNCHANGED <<now, launcherValid, ownerKind, launcherTeam, destroyed, combatVars, world,
                   aimVars, numSpawned>>
    /\ UNCHANGED <<autoVars, playerVars, gameModeVars>>

\* the timer manager runs the lifetime timer of a projectile once it is due
LifetimeTimer(p) ==
    /\ proj[p].alive /\ proj[p].timerActive /\ now >= proj[p].expireAt
    /\ proj' = [proj EXCEPT ![p] = OnLifetimeExpired(proj[p])]
    /\ lastDispatch' = NoDispatch /\ lastOverlap' = NoOverlap /\ tickEvents' = <<>>
    /\ lastAim' = NoAim /\ lastQuery' = NoQuery
    /\ UNCHANGED <<now, launcherValid, ownerKind, launcherTeam, destroyed, combatVars, world,
                   aimVars, numSpawned>>
    /\ UNCHANGED <<autoVars, playerVars, gameModeVars>>

TimerDue(p) == proj[p].alive /\ proj[p].timerActive /\ now >= proj[p].expireAt

\* the clock moves on once the timers due in this tick have run; it runs up to
\* MaxTime and for as long as a lifetime timer is still pending
AdvanceTime ==
    /\ now < MaxTime \/ \E p \in ProjIds : proj[p].alive /\ proj[p].timerActive
    /\ \A p \in ProjIds : ~TimerDue(p)
    /\ now' = now + 1
    /\ lastDispatch' = NoDispatch /\ lastOverlap' = NoOverlap /\ tickEvents' = <<>>
    /\ lastAim' = NoAim /\ lastQuery' = NoQuery
    /\ UNCHANGED <<launcherValid, ownerKind, launcherTeam, destroyed, combatVars, world, aimVars,
                   proj, numSpawned>>
    /\ UNCHANGED <<autoVars, playerVars, gameModeVars>>

WorldChange(w) ==
    /\ w # world /\ w.HitActor \notin destroyed
    /\ world' = w
    /\ lastDispatch' = NoDispatch /\ lastOverlap' = NoOverlap /\ tickEvents' = <<>>
    /\ lastAim' = NoAim /\ lastQuery' = NoQuery
    /\ UNCHANGED <<now, launcherValid, ownerKind, launcherTeam, destroyed, combatVars, aimVars,
                   proj, numSpawned>>
    /\ UNCHANGED <<autoVars, playerVars, gameModeVars>>

\* an external caller (or the component's own auto-update tick) asks for fresh aim
\* data; repeated tells that the step before was such a call too, so that nothing in
\* the world changed in between
CallRequestAimUpdate ==
    /\ launcherValid /\ AimComponent
    /\ LET r == RequestAimUpdate
       IN /\ CachedAimData' = r.data
          /\ bAimIsBlocked' = r.blocked
          /\ PreviousTargetActor' = r.target
          /\ PreviousAimLocation' = r.location
          /\ lastAim' = [call |-> TRUE, repeated |-> lastAim.call,
                         OldData |-> CachedAimData, bWasBlocked |-> bAimIsBlocked,
                         OldTarget |-> PreviousTargetActor,
                         OldLocation |-> PreviousAimLocation, events |-> r.events,
                         tick |-> FALSE, DeltaTime |-> 0, calls |-> 1]
    /\ lastQuery' = NoQuery
    /\ lastDispatch' = NoDispatch /\ lastOverlap' = NoOverlap /\ tickEvents' = <<>>
    /\ UNCHANGED <<now, launcherValid, ownerKind, launcherTeam, destroyed, combatVars,
                   world, proj, numSpawned>>
    /\ UNCHANGED <<autoVars, playerVars, gameModeVars>>

\* a tick that never clears its timer
AimTickComponent_TimerKept(DeltaTime) ==
    /\ launcherValid /\ AimComponent
    /\ bAutoUpdateOnTick
    /\ AutoUpdateTimer' = AutoUpdateTimer + DeltaTime
    /\ IF AutoUpdateTimer + DeltaTime >= AutoUpdateInterval
       THEN /\ CachedAimData' = RequestAimUpdate.data
            /\ bAimIsBlocked' = RequestAimUpdate.blocked
            /\ PreviousTargetActor' = RequestAimUpdate.target
            /\ PreviousAimLocation' = RequestAimUpdate.location
            /\ tickSinceAuto' = 0
            /\ lastAim' = [NoAim EXCEPT !.call = TRUE, !.OldData = CachedAimData,
                               !.bWasBlocked = bAimIsBlocked,
                               !.OldTarget = PreviousTargetActor,
                               !.OldLocation = PreviousAimLocation,
                               !.events = RequestAimUpdate.events,
                               !.tick = TRUE, !.DeltaTime = DeltaTime, !.calls = 1]
       ELSE /\ tickSinceAuto' = tickSinceAuto + DeltaTime
            /\ lastAim' = [NoAim EXCEPT !.tick = TRUE, !.DeltaTime = DeltaTime]
            /\ UNCHANGED aimVars
    /\ lastQuery' = NoQuery
    /\ lastDispatch' = NoDispatch /\ lastOverlap' = NoOverlap /\ tickEvents' = <<>>
    /\ UNCHANGED <<now, launcherValid, ownerKind, launcherTeam, destroyed, combatVars,
                   world, proj, numSpawned, bAutoUpdateOnTick, AutoUpdateInterval>>
    /\ UNCHANGED <<playerVars, gameModeVars>>

\* UAC_AimComponent::TickComponent: nothing unless auto-update is on; otherwise add
\* the frame time to the timer and, once it reaches the interval, clear it and call
\* RequestAimUpdate
AimTickComponent(DeltaTime) ==
    /\ launcherValid /\ AimComponent
    /\ IF ~bAutoUpdateOnTick
       THEN /\ lastAim' = [NoAim EXCEPT !.tick = TRUE, !.DeltaTime = DeltaTime]
            /\ UNCHANGED <<aimVars, AutoUpdateTimer, tickSinceAuto>>
       ELSE IF AutoUpdateTimer + DeltaTime >= AutoUpdateInterval
       THEN /\ AutoUpdateTimer' = 0
            /\ CachedAimData' = RequestAimUpdate.data
            /\ bAimIsBlocked' = RequestAimUpdate.blocked
            /\ PreviousTargetActor' = RequestAimUpdate.target
            /\ PreviousAimLocation' = RequestAimUpdate.location
            /\ tickSinceAuto' = 0
            /\ lastAim' = [NoAim EXCEPT !.call = TRUE, !.OldData = CachedAimData,
                               !.bWasBlocked = bAimIsBlocked,
                               !.OldTarget = PreviousTargetActor,
                               !.OldLocation = PreviousAimLocation,
                               !.events = RequestAimUpdate.events,
                               !.tick = TRUE, !.DeltaTime = DeltaTime, !.calls = 1]
       ELSE /\ AutoUpdateTimer' = AutoUpdateTimer + DeltaTime
            /\ tickSinceAuto' = tickSinceAuto + DeltaTime
            /\ lastAim' = [NoAim EXCEPT !.tick = TRUE, !.DeltaTime = DeltaTime]
            /\ UNCHANGED aimVars
    /\ lastQuery' = NoQuery
    /\ lastDispatch' = NoDispatch /\ lastOverlap' = NoOverlap /\ tickEvents' = <<>>
    /\ UNCHANGED <<now, launcherValid, ownerKind, launcherTeam, destroyed, combatVars,
                   world, proj, numSpawned, bAutoUpdateOnTick, AutoUpdateInterval>>
    /\ UNCHANGED <<playerVars, gameModeVars>>

\* an actor of the level is destroyed; the ray no longer hits it
ActorDestroyed(a) ==
    /\ a \notin destroyed
    /\ destroyed' = destroyed \cup {a}
    /\ world' = IF world.HitActor = a
                THEN [bHit |-> FALSE, HitActor |-> None, Distance |-> MaxTraceDistance,
                      Origin |-> world.Origin]
                ELSE world
    /\ lastAim' = NoAim /\ lastQuery' = NoQuery
    /\ lastDispatch' = NoDispatch /\ lastOverlap' = NoOverlap /\ tickEvents' = <<>>
    /\ UNCHANGED <<now, launcherValid, ownerKind, launcherTeam, combatVars, aimVars,
                   proj, numSpawned>>
    /\ UNCHANGED <<autoVars, playerVars, gameModeVars>>

(* ---------------- read-only queries ---------------- *)
\* a const member function was called: the step records the call and its return
\* value and touches nothing else
Answer(op, arg, result) ==
    /\ lastQuery' = [op |-> op, arg |-> arg, result |-> result]
    /\ lastDispatch' = NoDispatch /\ lastOverlap' = NoOverlap /\ tickEvents' = <<>>
    /\ lastAim' = NoAim
    /\ UNCHANGED <<now, launcherValid, ownerKind, launcherTeam, destroyed, combatVars,
                   world, aimVars, proj, numSpawned>>
    /\ UNCHANGED <<autoVars, playerVars, gameModeVars>>

\* the world points a caller asks a direction from: above the owner, the muzzle, on
\* the aim ray at and beyond a target 500 away, and high above such a target
StartLocations == {<<0, 70>>, <<60, 70>>, <<500, 0>>, <<600, 0>>, <<495, 700>>, <<500, 700>>}

CallGetAimDirectionFromLocation(StartLocation) ==
    /\ launcherValid /\ AimComponent
    /\ Answer("GetAimDirectionFromLocation", StartLocation,
              GetAimDirectionFromLocation(CachedAimData.AimLocation, StartLocation))

\* UAC_AimComponent::IsAimingAt
IsAimingAt(TestActor) == TestActor # None /\ CachedAimData.HitActor = TestActor

CallIsAimingAt(TestActor) ==
    /\ launcherValid /\ AimComponent
    /\ Answer("IsAimingAt", TestActor, IsAimingAt(TestActor))

CallIsAimBlocked ==
    /\ launcherValid /\ AimComponent
    /\ Answer("IsAimBlocked", None, bAimIsBlocked)

CallGetAimData ==
    /\ launcherValid /\ AimComponent
    /\ Answer("GetAimData", None, CachedAimData)

\* a CanFire that asks the aim component for fresh data before it answers
CallCanFire_Refreshes ==
    /\ launcherValid
    /\ lastQuery' = [op |-> "CanFire", arg |-> None, result |-> CanFire]
    /\ CachedAimData' = RequestAimUpdate.data
    /\ bAimIsBlocked' = RequestAimUpdate.blocked
    /\ PreviousTargetActor' = RequestAimUpdate.target
    /\ PreviousAimLocation' = RequestAimUpdate.location
    /\ lastDispatch' = NoDispatch /\ lastOverlap' = NoOverlap /\ tickEvents' = <<>>
    /\ lastAim' = NoAim
    /\ UNCHANGED <<now, launcherValid, ownerKind, launcherTeam, destroyed, combatVars,
                   world, proj, numSpawned>>
    /\ UNCHANGED <<autoVars, playerVars, gameModeVars>>

CallCanFire == launcherValid /\ Answer("CanFire", None, CanFire)

CallCanFireType(TypeName) == launcherValid /\ Answer("CanFireType", TypeName, CanFireType(TypeName))

CallGetCooldownRemaining ==
    launcherValid /\ Answer("GetCooldownRemaining", None, GetCooldownRemaining)

CallGetCooldownProgress ==
    launcherValid /\ Answer("GetCooldownProgress", None, GetCooldownProgress)

(* ======================= ABasePlayer: spell switching ======================= *)
SpellNames == {"Flame", "Ice", "Lightning"}
\* slot orders: the default one (shortened), a designer's, and an emptied one
SpellOrders == {<<"Flame", "Ice", "Lightning">>, <<"Ice", "Flame">>, <<>>}
INDEX_NONE == -1

\* no spell function was called by the last step
NoEquip ==
    [call |-> "none", arg |-> None, ret |-> None, Old |-> NAME_None, events |-> <<>>]

\* ABasePlayer::HasSpell: what the spell collection component reports
HasSpell(SpellType) == SpellType \in unlockedSpells

\* TArray::IndexOfByKey, 0-based, INDEX_NONE when absent
FindSpellIndex(SpellType) ==
    IF \E i \in 1..Len(SpellOrder) : SpellOrder[i] = SpellType
    THEN (CHOOSE i \in 1..Len(SpellOrder) :
             /\ SpellOrder[i] = SpellType
             /\ \A j \in 1..(i - 1) : SpellOrder[j] # SpellType) - 1
    ELSE INDEX_NONE

\* an equip that does not ask whether the spell is unlocked
SetEquippedSpell_NoCheck(SpellType) ==
    IF EquippedSpellType = SpellType
    THEN [ret |-> TRUE, equipped |-> EquippedSpellType, events |-> <<>>]
    ELSE [ret |-> TRUE, equipped |-> SpellType,
          events |-> << <<"OnEquippedSpellChanged", SpellType, FindSpellIndex(SpellType)>> >>]

\* ABasePlayer::SetEquippedSpell: the return value, the equipped spell afterwards
\* and the events published
SetEquippedSpell(SpellType) ==
    IF ~HasSpell(SpellType)
    THEN [ret |-> FALSE, equipped |-> EquippedSpellType, events |-> <<>>]
    ELSE IF EquippedSpellType = SpellType
    THEN [ret |-> TRUE, equipped |-> EquippedSpellType, events |-> <<>>]
    ELSE [ret |-> TRUE, equipped |-> SpellType,
          events |-> << <<"OnEquippedSpellChanged", SpellType, FindSpellIndex(SpellType)>> >>]

\* ABasePlayer::SetEquippedSpellByIndex (SlotIndex is 0-based)
SetEquippedSpellByIndex(SlotIndex) ==
    IF ~(0 <= SlotIndex /\ SlotIndex < Len(SpellOrder))
    THEN [ret |-> FALSE, equipped |-> EquippedSpellType, events |-> <<>>]
    ELSE SetEquippedSpell(SpellOrder[SlotIndex + 1])

\* the loop of FindNextUnlockedSpellIndex: step with wrapping, stop at the first
\* unlocked spell or after one full round
RECURSIVE ScanSpellOrder(_, _, _)
ScanSpellOrder(CurrentIndex, CheckedCount, bForward) ==
    IF CheckedCount >= Len(SpellOrder) THEN INDEX_NONE
    ELSE LET Next == IF bForward
                     THEN (CurrentIndex + 1) % Len(SpellOrder)
                     ELSE (CurrentIndex - 1 + Len(SpellOrder)) % Len(SpellOrder)
         IN IF HasSpell(SpellOrder[Next + 1]) THEN Next
            ELSE ScanSpellOrder(Next, CheckedCount + 1, bForward)

FindNextUnlockedSpellIndex(StartIndex, bForward) ==
    IF Len(SpellOrder) = 0 THEN INDEX_NONE
    ELSE ScanSpellOrder(IF StartIndex = INDEX_NONE
                        THEN (IF bForward THEN -1 ELSE Len(SpellOrder))
                        ELSE StartIndex, 0, bForward)

\* CycleToNextSpell (bForward) / CycleToPreviousSpell
CycleSpell(bForward) ==
    LET Found == FindNextUnlockedSpellIndex(FindSpellIndex(EquippedSpellType), bForward)
    IN IF Len(SpellOrder) = 0 \/ Found = INDEX_NONE
       THEN [ret |-> None, equipped |-> EquippedSpellType, events |-> <<>>]
       ELSE [SetEquippedSpellByIndex(Found) EXCEPT !.ret = None]

\* ABasePlayer::OnSpellCollected: auto-equip when nothing is equipped yet
OnSpellCollected(SpellType) ==
    IF bAutoEquipFirstSpell /\ EquippedSpellType = NAME_None
    THEN [SetEquippedSpell(SpellType) EXCEPT !.ret = None]
    ELSE [ret |-> None, equipped |-> EquippedSpellType, events |-> <<>>]

\* the first spell of the slot order among the starting spells, if any
FirstStartingSpell ==
    IF \E i \in 1..Len(SpellOrder) : HasSpell(SpellOrder[i])
    THEN SpellOrder[CHOOSE i \in 1..Len(SpellOrder) :
                       /\ HasSpell(SpellOrder[i])
                       /\ \A j \in 1..(i - 1) : ~HasSpell(SpellOrder[j])]
    ELSE NAME_None

\* constructor and BeginPlay: nothing equipped, then the first starting spell of
\* the slot order when auto-equip is on
PlayerBeginPlay ==
    /\ SpellOrder \in SpellOrders
    /\ bAutoEquipFirstSpell \in BOOLEAN
    /\ unlockedSpells \in SUBSET SpellNames
    /\ EquippedSpellType = IF bAutoEquipFirstSpell THEN FirstStartingSpell ELSE NAME_None
    /\ lastEquip = NoEquip

\* no spell callback of the game mode ran in the last step
NoSpellCall == [call |-> "none", SpellTypeName |-> NAME_None, events |-> <<>>]

\* every step that is none of the player's or the game mode's
quietOthers ==
    /\ lastDispatch' = NoDispatch /\ lastOverlap' = NoOverlap /\ tickEvents' = <<>>
    /\ lastAim' = NoAim /\ lastQuery' = NoQuery
    /\ UNCHANGED <<now, launcherValid, ownerKind, launcherTeam, destroyed, combatVars,
                   world, aimVars, proj, numSpawned, autoVars>>

\* a spell function of the player ran: the step records the call and applies it
PlayerCall(call, arg, r) ==
    /\ EquippedSpellType' = r.equipped
    /\ lastEquip' = [call |-> call, arg |-> arg, ret |-> r.ret,
                      Old |-> EquippedSpellType, events |-> r.events]
    /\ UNCHANGED <<SpellOrder, bAutoEquipFirstSpell, unlockedSpells>>
    /\ quietOthers
    /\ lastSpellCall' = NoSpellCall
    /\ UNCHANGED <<CollectedSpells, spellAnnouncements, matchVars>>

CallSetEquippedSpell(SpellType) ==
    PlayerCall("SetEquippedSpell", SpellType, SetEquippedSpell(SpellType))

CallSetEquippedSpellByIndex(SlotIndex) ==
    PlayerCall("SetEquippedSpellByIndex", SlotIndex, SetEquippedSpellByIndex(SlotIndex))

CycleToNextSpell == PlayerCall("CycleToNextSpell", None, CycleSpell(TRUE))

CycleToPreviousSpell == PlayerCall("CycleToPreviousSpell", None, CycleSpell(FALSE))

CallOnSpellCollected(SpellType) ==
    PlayerCall("OnSpellCollected", SpellType, OnSpellCollected(SpellType))

\* the spell collection component unlocks or locks a spell
CollectionChange(SpellType) ==
    /\ unlockedSpells' = IF SpellType \in unlockedSpells
                         THEN unlockedSpells \ {SpellType}
                         ELSE unlockedSpells \cup {SpellType}
    /\ lastEquip' = NoEquip
    /\ UNCHANGED <<SpellOrder, bAutoEquipFirstSpell, EquippedSpellType>>
    /\ quietOthers
    /\ lastSpellCall' = NoSpellCall
    /\ UNCHANGED <<CollectedSpells, spellAnnouncements, matchVars>>

(* ======================= AWizardJamGameMode: spell tracking ======================= *)
\* a ProcessNewSpell that records and announces the None name like any other
ProcessNewSpell_NoneAccepted(SpellTypeName) ==
    IF SpellTypeName \in CollectedSpells
    THEN [collected |-> CollectedSpells, events |-> <<>>]
    ELSE LET TotalCount == Cardinality(CollectedSpells \cup {SpellTypeName})
         IN [collected |-> CollectedSpells \cup {SpellTypeName},
             events |-> << <<"OnSpellCollectedGlobal", SpellTypeName, TotalCount>>,
                           <<"OnSpellTypeCollected", SpellTypeName, TotalCount>> >>]

\* AWizardJamGameMode::ProcessNewSpell: the set afterwards and the events published
ProcessNewSpell(SpellTypeName) ==
    IF SpellTypeName = NAME_None
    THEN [collected |-> CollectedSpells, events |-> <<>>]
    ELSE IF SpellTypeName \in CollectedSpells
    THEN [collected |-> CollectedSpells, events |-> <<>>]
    ELSE LET TotalCount == Cardinality(CollectedSpells \cup {SpellTypeName})
         IN [collected |-> CollectedSpells \cup {SpellTypeName},
             events |-> << <<"OnSpellCollectedGlobal", SpellTypeName, TotalCount>>,
                           <<"OnSpellTypeCollected", SpellTypeName, TotalCount>> >>]

\* the raw event fires on every pickup, then the type is processed
HandleSpellCollectiblePickedUp(SpellTypeName) ==
    [ProcessNewSpell(SpellTypeName) EXCEPT
        !.events = << <<"OnAnySpellEvent", SpellTypeName>> >> \o @]

HandleComponentSpellCollected(SpellTypeName) ==
    IF SpellTypeName \notin CollectedSpells
    THEN ProcessNewSpell(SpellTypeName)
    ELSE [collected |-> CollectedSpells, events |-> <<>>]

IsNewSpellEvent(e) == e[1] \in {"OnSpellCollectedGlobal", "OnSpellTypeCollected"}

\* a spell callback of the game mode ran: the step records it and applies it
GameModeCall(call, SpellTypeName, r) ==
    /\ CollectedSpells' = r.collected
    /\ spellAnnouncements' = spellAnnouncements \o SelectSeq(r.events, IsNewSpellEvent)
    /\ lastSpellCall' = [call |-> call, SpellTypeName |-> SpellTypeName, events |-> r.events]
    /\ lastEquip' = NoEquip
    /\ UNCHANGED <<SpellOrder, bAutoEquipFirstSpell, unlockedSpells, EquippedSpellType>>
    /\ UNCHANGED matchVars
    /\ quietOthers

SpellCollectiblePickedUp(SpellTypeName) ==
    GameModeCall("HandleSpellCollectiblePickedUp", SpellTypeName,
                 HandleSpellCollectiblePickedUp(SpellTypeName))

ComponentSpellCollected(SpellTypeName) ==
    GameModeCall("HandleComponentSpellCollected", SpellTypeName,
                 HandleComponentSpellCollected(SpellTypeName))

(* ======================= AWizardJamGameMode: match ======================= *)
\* GetActorTeamID of the scoring actor: 0 is the player's side (also an actor
\* without a team interface), 1 the AI's, anything else scores for nobody
ScorerTeamIDs == {0, 1, 2}
\* what a goal awards: nothing for the wrong element, else its configured points
PointsChoices == {0, 5, 10}

\* the winners CheckMatchEnd publishes for the given scores, and whether it clears
\* the match timer
CheckMatchEnd(Player, AI) ==
    IF Player >= WinningScore THEN [events |-> <<TRUE>>, clear |-> TRUE]
    ELSE IF AI >= WinningScore THEN [events |-> <<FALSE>>, clear |-> TRUE]
    ELSE [events |-> <<>>, clear |-> FALSE]

\* everything outside the match stays as it is and the per-step records are reset
quietMatch ==
    /\ lastDispatch' = NoDispatch /\ lastOverlap' = NoOverlap /\ tickEvents' = <<>>
    /\ lastAim' = NoAim /\ lastQuery' = NoQuery
    /\ lastEquip' = NoEquip /\ lastSpellCall' = NoSpellCall
    /\ UNCHANGED <<now, launcherValid, ownerKind, launcherTeam, destroyed, combatVars,
                   world, aimVars, proj, numSpawned, autoVars>>
    /\ UNCHANGED <<SpellOrder, bAutoEquipFirstSpell, unlockedSpells, EquippedSpellType>>
    /\ UNCHANGED <<CollectedSpells, spellAnnouncements, MatchTimeLimit>>

\* a goal reports a hit: a null scorer or zero points is ignored, else the scorer's
\* side gets the points and the match end is checked
OnGoalScored(ScoringActor, TeamID, PointsAwarded) ==
    /\ PlayerScore + AIScore + PointsAwarded <= MaxTotalScore
    /\ Len(matchEnded) < MaxMatchEnded
    /\ IF ScoringActor = None \/ PointsAwarded = 0
       THEN UNCHANGED <<MatchTimerHandle, PlayerScore, AIScore, matchEnded>>
       ELSE LET Player == IF TeamID = 0 THEN PlayerScore + PointsAwarded ELSE PlayerScore
                AI == IF TeamID = 1 THEN AIScore + PointsAwarded ELSE AIScore
                r == CheckMatchEnd(Player, AI)
            IN /\ PlayerScore' = Player
               /\ AIScore' = AI
               /\ matchEnded' = matchEnded \o r.events
               /\ MatchTimerHandle' = (MatchTimerHandle /\ ~r.clear)
    /\ quietMatch

\* the one-shot match timer fires: the side ahead is published as the winner
OnMatchTimeExpired ==
    /\ MatchTimerHandle
    /\ Len(matchEnded) < MaxMatchEnded
    /\ MatchTimerHandle' = FALSE
    /\ matchEnded' = Append(matchEnded, PlayerScore > AIScore)
    /\ UNCHANGED <<PlayerScore, AIScore>>
    /\ quietMatch

LauncherDestroyed ==
    /\ launcherValid
    /\ launcherValid' = FALSE
    /\ lastDispatch' = NoDispatch /\ lastOverlap' = NoOverlap /\ tickEvents' = <<>>
    /\ lastAim' = NoAim /\ lastQuery' = NoQuery
    /\ UNCHANGED <<now, ownerKind, launcherTeam, destroyed, combatVars, world, aimVars,
                   proj, numSpawned>>
    /\ UNCHANGED <<autoVars, playerVars, gameModeVars>>

(* ======================= specification ======================= *)
\* the state after construction and BeginPlay, with FireCooldown configured to one
\* of the given durations and the match time limit to one of the given limits
InitWith(Cooldowns, TimeLimits) ==
    /\ now = 0
    /\ launcherValid = TRUE
    /\ ownerKind \in OwnerKinds
    /\ launcherTeam \in LauncherTeams
    /\ FireCooldown \in Cooldowns
    /\ bRespectAimBlocked \in BOOLEAN
    /\ DefaultProjectileClass = None
    /\ AimComponent \in BOOLEAN
    /\ LastFireTime = InitialLastFireTime
    /\ bWasOnCooldown = FALSE
    /\ world \in WorldViews
    /\ CachedAimData = PerformAimTrace(world)
    /\ bAimIsBlocked = FALSE
    /\ PreviousTargetActor = PerformAimTrace(world).HitActor
    /\ PreviousAimLocation = PerformAimTrace(world).AimLocation
    /\ proj = [p \in ProjIds |-> NoProjectile]
    /\ numSpawned = 0
    /\ lastDispatch = NoDispatch
    /\ lastOverlap = NoOverlap
    /\ tickEvents = <<>>
    /\ destroyed = {}
    /\ lastAim = NoAim
    /\ lastQuery = NoQuery
    /\ bAutoUpdateOnTick \in BOOLEAN
    /\ AutoUpdateInterval \in AutoIntervals
    /\ AutoUpdateTimer = 0
    /\ tickSinceAuto = 0
    /\ PlayerBeginPlay
    /\ CollectedSpells = {}
    /\ spellAnnouncements = <<>>
    /\ lastSpellCall = NoSpellCall
    /\ MatchTimeLimit \in TimeLimits
    /\ MatchTimerHandle = (MatchTimeLimit > 0)
    /\ PlayerScore = 0
    /\ AIScore = 0
    /\ matchEnded = <<>>

\* the match time limit at its default: no limit
InitFrom(Cooldowns) == InitWith(Cooldowns, {DefaultMatchTimeLimit})

Init == InitFrom(CooldownChoices)

\* a player with the default slot order and no starting spells
NoSpells ==
    SpellOrder = <<"Flame", "Ice", "Lightning">> /\ bAutoEquipFirstSpell /\ unlockedSpells = {}

\* the constructor's setting: the aim component updates on request only
AutoUpdateOff == ~bAutoUpdateOnTick /\ AutoUpdateInterval = 2

(* dispatch: the fire controller with its aim resolver; projectiles only expire *)
DispatchViews ==
    {w \in WorldViews : w.Distance \in {MaxTraceDistance, 30} /\ w.Origin = ZeroVector}

InitDispatch ==
    Init /\ NoSpells /\ AutoUpdateOff /\ ownerKind = "pawn" /\ launcherTeam = 1 /\ world \in DispatchViews

NextDispatch ==
    \/ \E ok \in BOOLEAN : FireProjectile(ok)
    \/ \E n \in TypeNames, ok \in BOOLEAN : FireProjectileByType(n, ok)
    \/ \E c \in {None, "BP_Flame"}, ok \in BOOLEAN : FireProjectileClass(c, ok)
    \/ \E c \in {None, "BP_Flame"} : SetDefaultProjectileClass(c)
    \/ TickComponent
    \/ \E p \in ProjIds : LifetimeTimer(p)
    \/ AdvanceTime
    \/ \E w \in DispatchViews : WorldChange(w)

SpecDispatch == InitDispatch /\ [][NextDispatch]_vars

\* dispatches that a bound listener answers with a dispatch of its own
InitListener ==
    InitDispatch /\ FireCooldown = 2 /\ bRespectAimBlocked

NextListener ==
    \/ \E e \in ListenerEvents : FireProjectileClass_Listener("BP_Flame", e)
    \/ FireProjectile(TRUE)
    \/ \E c \in {None, "BP_Flame", "BP_Spark"} : SetDefaultProjectileClass(c)
    \/ \E p \in ProjIds : LifetimeTimer(p)
    \/ AdvanceTime
    \/ \E w \in DispatchViews : WorldChange(w)

SpecListener == InitListener /\ [][NextListener]_vars

\* a player who only fires: the obstruction in front of the owner can go away and
\* does not come back, and nobody but the dispatch itself asks for fresh aim data
InitRecover ==
    InitDispatch /\ FireCooldown = 2 /\ bRespectAimBlocked /\ AimComponent

NextRecover ==
    \/ FireProjectileByType("Flame", TRUE)
    \/ TickComponent
    \/ \E p \in ProjIds : LifetimeTimer(p)
    \/ AdvanceTime
    \/ \E w \in DispatchViews : ~w.bHit /\ WorldChange(w)

SpecRecover == InitRecover /\ [][NextRecover]_vars

\* a controller configured with a short or a long cooldown, from its first call on.
\* FireCooldown has a ClampMin of 0.05 s and no ClampMax: 1000.5 s is a value a
\* designer can set
LongCooldown == 10005

InitNeverFired ==
    /\ InitFrom(CooldownChoices \cup {LongCooldown})
    /\ NoSpells /\ AutoUpdateOff /\ ownerKind = "pawn" /\ launcherTeam = 1
    /\ AimComponent /\ bRespectAimBlocked
    /\ world = [bHit |-> FALSE, HitActor |-> None, Distance |-> MaxTraceDistance,
                Origin |-> ZeroVector]

NextNeverFired ==
    \/ FireProjectile(TRUE)
    \/ \E n \in TypeNames : FireProjectileByType(n, TRUE)
    \/ \E c \in {None, "BP_Flame"} : SetDefaultProjectileClass(c)
    \/ CallGetCooldownRemaining
    \/ CallGetCooldownProgress
    \/ TickComponent
    \/ \E p \in ProjIds : LifetimeTimer(p)
    \/ AdvanceTime

SpecNeverFired == InitNeverFired /\ [][NextNeverFired]_vars

\* the player with all three spells unlocked, who fires and switches spells
InitInput ==
    /\ Init /\ AutoUpdateOff /\ ownerKind = "pawn" /\ launcherTeam = 1
    /\ FireCooldown = 2 /\ AimComponent /\ bRespectAimBlocked /\ world \in DispatchViews
    /\ SpellOrder = <<"Flame", "Ice", "Lightning">> /\ bAutoEquipFirstSpell
    /\ unlockedSpells = SpellNames

NextInput ==
    \/ \E ok \in BOOLEAN : HandleFireInput(ok)
    \/ CycleToNextSpell
    \/ CallRequestAimUpdate
    \/ \E p \in ProjIds : LifetimeTimer(p)
    \/ AdvanceTime
    \/ \E w \in DispatchViews : WorldChange(w)

SpecInput == InitInput /\ [][NextInput]_vars

\* the clock and the timer manager keep running
FairSpecRecover ==
    SpecRecover /\ WF_vars(AdvanceTime) /\ \A p \in ProjIds : WF_vars(LifetimeTimer(p))

(* aim: the aim resolver is asked for updates while the level changes *)
DestructibleActors == {"Wizard2"}

InitAim ==
    /\ Init /\ NoSpells /\ AutoUpdateOff
    /\ ownerKind = "pawn" /\ FireCooldown = 2 /\ AimComponent /\ bRespectAimBlocked

NextAim ==
    \/ CallRequestAimUpdate
    \/ \E w \in WorldViews : WorldChange(w)
    \/ \E a \in DestructibleActors : ActorDestroyed(a)
    \/ \E l \in StartLocations : CallGetAimDirectionFromLocation(l)

SpecAim == InitAim /\ [][NextAim]_vars

(* auto-update: the aim component ticks while the level changes and callers ask *)
AutoViews == {w \in WorldViews : w.Origin = ZeroVector /\ w.Distance \in {30, 500, MaxTraceDistance}}

InitAuto ==
    /\ Init /\ NoSpells /\ ownerKind = "pawn" /\ launcherTeam = 1 /\ world \in AutoViews
    /\ FireCooldown = 2 /\ AimComponent /\ bRespectAimBlocked

NextAuto ==
    \/ \E dt \in DeltaTimes : AimTickComponent(dt)
    \/ CallRequestAimUpdate
    \/ \E w \in AutoViews : WorldChange(w)

SpecAuto == InitAuto /\ [][NextAuto]_vars

\* the other components at rest while the player or the game mode is exercised
AtRest ==
    /\ AutoUpdateOff /\ ownerKind = "pawn" /\ launcherTeam = 1 /\ FireCooldown = 2
    /\ AimComponent /\ bRespectAimBlocked
    /\ world = [bHit |-> FALSE, HitActor |-> None, Distance |-> MaxTraceDistance,
                 Origin |-> ZeroVector]

(* player: spell functions are called while the collection unlocks and locks spells *)
InitPlayer == Init /\ AtRest

NextPlayer ==
    \/ \E n \in SpellNames \cup {NAME_None} : CallSetEquippedSpell(n)
    \/ \E i \in -1..3 : CallSetEquippedSpellByIndex(i)
    \/ CycleToNextSpell
    \/ CycleToPreviousSpell
    \/ \E n \in SpellNames : CallOnSpellCollected(n)
    \/ \E n \in SpellNames : CollectionChange(n)

SpecPlayer == InitPlayer /\ [][NextPlayer]_vars

(* game mode: pickup and component callbacks arrive in any order *)
InitGameMode ==
    /\ Init /\ AtRest
    /\ SpellOrder = <<>> /\ ~bAutoEquipFirstSpell /\ unlockedSpells = {}

NextGameMode ==
    \/ \E n \in SpellNames \cup {NAME_None} : SpellCollectiblePickedUp(n)
    \/ \E n \in SpellNames \cup {NAME_None} : ComponentSpellCollected(n)

SpecGameMode == InitGameMode /\ [][NextGameMode]_vars

(* match: goals report hits from either side while the match timer may expire *)
InitMatch ==
    /\ InitWith(CooldownChoices, MatchTimeLimits) /\ AtRest
    /\ SpellOrder = <<>> /\ ~bAutoEquipFirstSpell /\ unlockedSpells = {}

NextMatch ==
    \/ \E a \in {None, "Wizard1"} : \E t \in ScorerTeamIDs : \E pts \in PointsChoices :
          OnGoalScored(a, t, pts)
    \/ OnMatchTimeExpired

SpecMatch == InitMatch /\ [][NextMatch]_vars

(* queries: the controller fires while callers read the two components *)
InitQuery ==
    /\ Init /\ NoSpells /\ AutoUpdateOff
    /\ ownerKind = "pawn" /\ launcherTeam = 1 /\ world \in DispatchViews
    /\ FireCooldown = 3
    /\ AimComponent \/ bRespectAimBlocked

NextQuery ==
    \/ \E ok \in BOOLEAN : FireProjectile(ok)
    \/ \E n \in TypeNames : FireProjectileByType(n, TRUE)
    \/ \E c \in {None, "BP_Flame"} : SetDefaultProjectileClass(c)
    \/ CallRequestAimUpdate
    \/ \E p \in ProjIds : LifetimeTimer(p)
    \/ AdvanceTime
    \/ \E w \in DispatchViews : WorldChange(w)
    \/ CallGetAimDirectionFromLocation(CalculateMuzzleLocation)
    \/ \E a \in {None, "Prop"} : CallIsAimingAt(a)
    \/ CallIsAimBlocked
    \/ CallGetAimData
    \/ CallCanFire
    \/ \E n \in TypeNames : CallCanFireType(n)
    \/ CallGetCooldownRemaining
    \/ CallGetCooldownProgress

SpecQuery == InitQuery /\ [][NextQuery]_vars

(* projectile lifecycle: dispatched projectiles meet overlap candidates and timers *)
InitProjectile ==
    Init /\ NoSpells /\ AutoUpdateOff /\ FireCooldown = 2 /\ ~AimComponent /\ bRespectAimBlocked
         /\ world = [bHit |-> FALSE, HitActor |-> None, Distance |-> MaxTraceDistance,
                      Origin |-> ZeroVector]

NextProjectile ==
    \/ \E c \in ProjectileClasses : numSpawned < MaxLifecycles /\ FireProjectileClass(c, TRUE)
    \/ \E p \in ProjIds, c \in Candidates : Overlap(p, c)
    \/ \E p \in ProjIds : LifetimeTimer(p)
    \/ AdvanceTime
    \/ LauncherDestroyed

SpecProjectile == InitProjectile /\ [][NextProjectile]_vars

\* a bat that fires: its projectiles, what they overlap, the clock
InitBat == InitProjectile /\ ownerKind = "pawn"

NextBat ==
    \/ \E c \in ProjectileClasses, t \in {"Wizard1", "Wizard2"} :
           numSpawned < MaxLifecycles /\ SpawnProjectileAtMouth(c, t)
    \/ \E p \in ProjIds, c \in Candidates : Overlap(p, c)
    \/ \E p \in ProjIds : LifetimeTimer(p)
    \/ AdvanceTime
    \/ LauncherDestroyed

SpecBat == InitBat /\ [][NextBat]_vars

(* ======================= properties: projectile lifecycle ======================= *)
\* how often an event of the given name is in the projectile's log
Count(pr, name) == Cardinality({i \in DOMAIN pr.log : pr.log[i][1] = name})

IsDestroyedEvent(e) == e[1] = "OnProjectileDestroyed"

\* the hit-status flags of the projectile-terminated events, in order
DestroyedFlags(pr) ==
    LET evs == SelectSeq(pr.log, IsDestroyedEvent)
    IN [i \in DOMAIN evs |-> evs[i][2]]

Terminated(pr) == pr.spawned /\ ~pr.alive

\* lifecycle state of the spec: Resolved is by hit, Expired is by timeout
Phase(pr) ==
    IF ~pr.spawned THEN "NotSpawned"
    ELSE IF pr.alive THEN "InFlight"
    ELSE IF pr.cause = "hit" THEN "Resolved"
    ELSE IF pr.cause = "timeout" THEN "Expired"
    ELSE "Removed"

\* C1: a projectile whose qualifying overlap is delivered in the tick in which its
\* lifetime timer is due resolves exactly once, by the hit: ApplyDamage ran once
\* (one damage call of the configured amount), one projectile-hit event, exactly one
\* projectile-terminated event with status true, and the timer is cleared so the
\* expiry callback cannot act any more.
C1Theorem ==
    \A p \in ProjIds :
        proj[p].dueAtHit =>
            /\ ~proj[p].alive /\ proj[p].cause = "hit"
            /\ Count(proj[p], "ApplyDamage") = 1
            /\ Count(proj[p], "TakeDamage") = (IF proj[p].Damage > 0 THEN 1 ELSE 0)
            /\ Count(proj[p], "OnProjectileHit") = 1
            /\ DestroyedFlags(proj[p]) = <<TRUE>>
            /\ ~proj[p].timerActive /\ ~TimerDue(p)

C1Witness ==
    \E p \in ProjIds :
        /\ proj[p].dueAtHit /\ now = proj[p].expireAt
        /\ Count(proj[p], "OnProjectileHit") = 1
        /\ lastOverlap.p = p /\ lastOverlap.received

\* C2: the lifecycle has only the transitions InFlight->Resolved (by hit) and
\* InFlight->Expired (by timeout), terminal states are absorbing, and damage, the
\* hit event and the terminated event each occur at most once.
C2Original ==
    [][\A p \in ProjIds :
          /\ Phase(proj'[p]) # Phase(proj[p]) =>
                <<Phase(proj[p]), Phase(proj'[p])>> \in
                    { <<"NotSpawned", "InFlight">>, <<"InFlight", "Resolved">>,
                      <<"InFlight", "Expired">> }
          /\ Terminated(proj[p]) => proj'[p] = proj[p]
          /\ Count(proj'[p], "ApplyDamage") <= 1
          /\ Count(proj'[p], "OnProjectileHit") <= 1
          /\ Count(proj'[p], "OnProjectileDestroyed") <= 1]_vars

(* ======================= properties: dispatch ======================= *)
IsFiredEvent(e) == e[1] = "OnProjectileFired"
IsBlockedEvent(e) == e[1] = "OnFireBlocked"
IsCooldownEvent(e) == e[1] = "OnCooldownStateChanged"

FiredEvents(rec) == SelectSeq(rec.events, IsFiredEvent)
BlockedEvents(rec) == SelectSeq(rec.events, IsBlockedEvent)

\* the last step was a dispatch call / it returned a projectile / it returned null
Dispatched == lastDispatch.call # "none"
Accepted == Dispatched /\ lastDispatch.ret # 0
Rejected == Dispatched /\ lastDispatch.ret = 0
RejectedWith(r) ==
    /\ Rejected /\ Len(BlockedEvents(lastDispatch)) = 1
    /\ BlockedEvents(lastDispatch)[1][2] = r

\* the dispatch was made after an accepted dispatch at time prevFire
AfterFire == Dispatched /\ lastDispatch.prevFire # InitialLastFireTime
InWindow ==
    /\ AfterFire /\ lastDispatch.prevFire < lastDispatch.time
    /\ lastDispatch.time < lastDispatch.prevFire + FireCooldown
PastWindow == AfterFire /\ lastDispatch.time >= lastDispatch.prevFire + FireCooldown

\* C3 as stated: after an accepted dispatch at T, every dispatch attempt strictly
\* between T and T+C is rejected with OnCooldown, and an attempt at or after T+C is
\* accepted when the kind is resolvable, the aim gate is open and the spawn succeeds.
C3Original ==
    /\ InWindow => RejectedWith("OnCooldown")
    /\ (PastWindow /\ ~lastDispatch.gates.noKind /\ ~lastDispatch.gates.blocked
          /\ lastDispatch.spawnOk) => Accepted

\* C3 amended: every attempt strictly between T and T+C is rejected, with OnCooldown
\* whenever its projectile kind is resolvable (an unresolvable kind is reported as
\* NoProjectileClass); an attempt at or after T+C is accepted when the other gates
\* permit.
C3Theorem ==
    /\ InWindow => /\ Rejected
                   /\ ~lastDispatch.gates.noKind => RejectedWith("OnCooldown")
                   /\ lastDispatch.gates.noKind => RejectedWith("NoProjectileClass")
    /\ (PastWindow /\ ~lastDispatch.gates.noKind /\ ~lastDispatch.gates.blocked
          /\ lastDispatch.spawnOk) => Accepted

C3Witness ==
    /\ Accepted /\ AfterFire
    /\ lastDispatch.time = lastDispatch.prevFire + FireCooldown

FireBlockedReasons == {"OnCooldown", "NoProjectileClass", "AimBlocked", "NoAimComponent", "SpawnFailed"}

\* C4: every dispatch call has exactly one outcome: a new projectile with exactly one
\* fire-succeeded event and no fire-blocked event, or no projectile with exactly one
\* fire-blocked event carrying one reason and the attempted type name and no
\* fire-succeeded event.
C4Theorem ==
    Dispatched =>
        \/ /\ lastDispatch.ret # 0
           /\ lastDispatch.ret = numSpawned /\ proj[lastDispatch.ret].alive
           /\ FiredEvents(lastDispatch) =
                  << <<"OnProjectileFired", lastDispatch.ret, lastDispatch.TypeName>> >>
           /\ BlockedEvents(lastDispatch) = <<>>
        \/ /\ lastDispatch.ret = 0
           /\ FiredEvents(lastDispatch) = <<>>
           /\ Len(BlockedEvents(lastDispatch)) = 1
           /\ BlockedEvents(lastDispatch)[1][2] \in FireBlockedReasons
           /\ BlockedEvents(lastDispatch)[1][3] = lastDispatch.TypeName

C4Witness ==
    /\ Accepted /\ lastDispatch.call = "FireProjectileByType"
    /\ Len(lastDispatch.events) >= 3

Cooling == now - LastFireTime < FireCooldown

C6Theorem ==
    [][/\ (lastDispatch'.call # "none" /\ lastDispatch'.ret = 0) =>
             /\ LastFireTime' = LastFireTime
             /\ bWasOnCooldown' = bWasOnCooldown
             /\ proj' = proj /\ numSpawned' = numSpawned
             /\ SelectSeq(lastDispatch'.events, IsCooldownEvent) = <<>>
       /\ (~Cooling /\ Cooling') => (lastDispatch'.call # "none" /\ lastDispatch'.ret # 0)
      ]_vars

C6Witness ==
    /\ RejectedWith("SpawnFailed") /\ Len(lastDispatch.events) >= 2
    /\ LastFireTime = lastDispatch.prevFire /\ ~Cooling

(* ======================= properties: overlap candidates ======================= *)
\* the last step delivered an overlap of candidate a to projectile lastOverlap.p
Overlapped == lastOverlap.p # 0

\* the launcher and the candidate both expose a team, equal and not the no-team value
TeamsMatch(a) ==
    /\ launcherValid /\ a \in Actors
    /\ TeamOf("Launcher") \notin {NoInterface, NoTeam}
    /\ TeamOf(a) = TeamOf("Launcher")

\* C7 as stated: a candidate is treated as friendly exactly when the launcher and the
\* candidate both expose a team and the teams are equal and not the no-team value; a
\* friendly candidate receives no damage, causes no hit event and does not terminate
\* the projectile, which stays in flight for a later candidate or its expiry.
C7Original ==
    Overlapped =>
        LET pr == proj[lastOverlap.p]
        IN /\ lastOverlap.friendly <=> TeamsMatch(lastOverlap.OtherActor)
           /\ lastOverlap.friendly =>
                 /\ Count(pr, "TakeDamage") = 0 /\ Count(pr, "OnProjectileHit") = 0
                 /\ pr.alive /\ pr.bound /\ pr.timerActive

\* the launcher's controlling pawn, when it is an actor other than the launcher
LaunchersPawn == IF ownerKind = "actorWithInstigator" THEN {"Pawn"} ELSE {}

\* C8: an overlap with an absent candidate, the projectile itself, its launcher or
\* the launcher's controlling pawn leaves the projectile as it was: no damage, no hit
\* event, still in flight, at any time of its life.
C8Theorem ==
    [][(lastOverlap'.p # 0 /\ lastOverlap'.OtherActor \in
            ({None, "Self", "Launcher"} \cup LaunchersPawn)) =>
          /\ proj' = proj
          /\ proj'[lastOverlap'.p].alive /\ proj'[lastOverlap'.p].log = <<>>
      ]_vars

C8Witness ==
    /\ Overlapped /\ lastOverlap.OtherActor = "Pawn" /\ ownerKind = "actorWithInstigator"
    /\ TeamOf("Pawn") = NoTeam
    /\ proj[lastOverlap.p].alive /\ now > 0

(* ======================= properties: termination ======================= *)
\* C9 as stated, its safety half: a projectile that terminated without a resolving hit
\* was destroyed by its own lifetime timer, once the lifetime had elapsed, and
\* published the terminated event with 'did not hit'.
C9Original ==
    \A p \in ProjIds :
        (Terminated(proj[p]) /\ Count(proj[p], "OnProjectileHit") = 0) =>
            /\ proj[p].cause = "timeout" /\ now >= proj[p].expireAt
            /\ DestroyedFlags(proj[p]) = <<FALSE>>

\* the clock and the timer manager keep running
FairSpecProjectile ==
    SpecProjectile /\ WF_vars(AdvanceTime) /\ \A p \in ProjIds : WF_vars(LifetimeTimer(p))

\* the liveness half of C9: every spawned projectile eventually terminates
C9Liveness == \A p \in ProjIds : proj[p].alive ~> Terminated(proj[p])

\* C10: a projectile in flight has published no terminated event; a terminated
\* projectile has published exactly one, whose flag is true exactly when the
\* projectile was terminated by a resolving hit, for which it published a hit event;
\* a projectile that ended by timeout reports false.
C10Theorem ==
    \A p \in ProjIds :
        LET pr == proj[p]
        IN /\ ~Terminated(pr) => DestroyedFlags(pr) = <<>>
           /\ Terminated(pr) =>
                 /\ DestroyedFlags(pr) = << pr.cause = "hit" >>
                 /\ pr.cause = "hit" <=> Count(pr, "OnProjectileHit") = 1
                 /\ pr.cause = "timeout" => DestroyedFlags(pr) = <<FALSE>>
                 /\ IsDestroyedEvent(pr.log[Len(pr.log)])

C10Witness ==
    \E p \in ProjIds :
        /\ Terminated(proj[p]) /\ proj[p].cause = "hit" /\ ~proj[p].dueAtHit
        /\ DestroyedFlags(proj[p]) = <<TRUE>>
        /\ lastOverlap.p = p /\ lastOverlap.OtherActor = "Goal"

(* ======================= properties: who destroys a projectile ======================= *)
\* C11 as stated: a projectile is destroyed only by its own decision, that is by its
\* resolving-hit handling or by the lifetime timer it registered; no other component,
\* such as a goal scoring zone it overlaps, destroys it.
C11Original ==
    \A p \in ProjIds :
        Terminated(proj[p]) =>
            \/ proj[p].cause = "hit" /\ proj[p].bDidHitSomething
            \/ proj[p].cause = "timeout" /\ now >= proj[p].expireAt

(* ======================= properties: aim notifications ======================= *)
IsTargetEvent(e) == e[1] = "OnAimTargetChanged"
IsLocationEvent(e) == e[1] = "OnAimLocationUpdated"
IsAimBlockedEvent(e) == e[1] = "OnAimBlocked"

TargetEvents == SelectSeq(lastAim.events, IsTargetEvent)
LocationEvents == SelectSeq(lastAim.events, IsLocationEvent)
AimBlockedEvents == SelectSeq(lastAim.events, IsAimBlockedEvent)

\* C12: a RequestAimUpdate call that directly follows another one, with nothing in the
\* world changed in between, publishes neither a target-changed nor a
\* location-updated notification.
C12Theorem ==
    (lastAim.call /\ lastAim.repeated) => (TargetEvents = <<>> /\ LocationEvents = <<>>)

C12Witness ==
    /\ lastAim.call /\ lastAim.repeated
    /\ CachedAimData.HitActor = "Wizard2"
    /\ PreviousAimLocation # CachedAimData.AimLocation

\* C13 as stated: RequestAimUpdate publishes target-changed whenever the resolved
\* target differs from the target of the previous resolution, so after every call the
\* target last announced (the initial one when none was announced) is the target of
\* the current snapshot, also when the previous target was destroyed and the ray now
\* hits nothing.
C13Original ==
    lastAim.call =>
        /\ lastAim.OldData.HitActor # CachedAimData.HitActor =>
               TargetEvents = << <<"OnAimTargetChanged", CachedAimData.HitActor,
                                   CachedAimData.TraceResult>> >>
        /\ PreviousTargetActor = CachedAimData.HitActor

\* C14 as stated: RequestAimUpdate publishes location-updated exactly when the new
\* aim location is farther than the threshold from the aim location of the snapshot
\* immediately before it.
C14Original ==
    lastAim.call =>
        (LocationEvents # <<>> <=>
            DistSquared(lastAim.OldData.AimLocation, CachedAimData.AimLocation)
                > LocationUpdateThreshold * LocationUpdateThreshold)

\* C15: every RequestAimUpdate recomputes the blocked state as (the ray hit something
\* and the hit distance is below MinAimDistance) and publishes aim-blocked-changed,
\* with the new value, exactly when that value differs from the blocked state before
\* the call; the blocked state changes in no other way, so consecutive notifications
\* alternate.
C15Theorem ==
    [][/\ lastAim'.call =>
             /\ bAimIsBlocked' = (CachedAimData'.bDidHit
                                    /\ CachedAimData'.HitDistance < MinAimDistance)
             /\ SelectSeq(lastAim'.events, IsAimBlockedEvent) =
                    (IF bAimIsBlocked' # bAimIsBlocked
                     THEN << <<"OnAimBlocked", ~bAimIsBlocked>> >> ELSE <<>>)
       /\ bAimIsBlocked' # bAimIsBlocked => lastAim'.call
      ]_vars

C15Witness ==
    /\ lastAim.call /\ lastAim.bWasBlocked /\ ~bAimIsBlocked
    /\ AimBlockedEvents = << <<"OnAimBlocked", FALSE>> >>

(* ======================= properties: aim and dispatch ======================= *)
\* C16: a dispatch with a resolvable kind and the cooldown elapsed is rejected with
\* AimBlocked exactly when the controller respects blocked aim, an aim component is
\* attached and that component reports blocked; with bRespectAimBlocked off no
\* dispatch is ever rejected with AimBlocked.
C16Theorem ==
    /\ (Dispatched /\ ~lastDispatch.gates.noKind /\ ~lastDispatch.gates.cooling) =>
          (RejectedWith("AimBlocked") <=> lastDispatch.gates.blocked)
    /\ RejectedWith("AimBlocked") => (bRespectAimBlocked /\ AimComponent /\ bAimIsBlocked)
    /\ ~bRespectAimBlocked => ~RejectedWith("AimBlocked")

C16Witness ==
    /\ RejectedWith("AimBlocked") /\ AfterFire
    /\ ~lastDispatch.gates.noKind /\ ~lastDispatch.gates.cooling

\* C17: with no aim component attached no dispatch is rejected for the missing
\* component: one that passes the class and cooldown gates spawns its projectile
\* whenever the spawn itself succeeds, and the projectile is launched along the owner's
\* forward vector.
C17Theorem ==
    (Dispatched /\ ~AimComponent) =>
        /\ ~RejectedWith("NoAimComponent") /\ ~RejectedWith("AimBlocked")
        /\ (~lastDispatch.gates.noKind /\ ~lastDispatch.gates.cooling) =>
              /\ lastDispatch.spawnOk => Accepted
              /\ Accepted => lastDispatch.FireDirection = ForwardVector
              /\ Rejected => RejectedWith("SpawnFailed")

C17Witness ==
    /\ Accepted /\ ~AimComponent /\ bAimIsBlocked = FALSE
    /\ lastDispatch.FireDirection = ForwardVector
    /\ world.bHit

(* ======================= properties: aim snapshots ======================= *)
\* the owner and the actor both expose a team
BothExposeTeam(a) == launcherTeam # NoInterface /\ TeamOf(a) # NoInterface

\* C18: the classification of a hit follows a fixed priority: Interactable for an
\* actor with an interactable tag, else Friendly for one with a friendly tag, else
\* Friendly or Enemy by the team relation when owner and actor both expose a team,
\* else World; an interactable actor of a hostile team is Interactable.
C18Theorem ==
    (lastAim.call /\ CachedAimData.bDidHit) =>
        LET a == CachedAimData.HitActor
            tags == IF a = None THEN {} ELSE TagsOf(a)
            c == CachedAimData.TraceResult
        IN /\ "Interactable" \in tags => c = "Interactable"
           /\ ("Interactable" \notin tags /\ "Friendly" \in tags) => c = "Friendly"
           /\ (tags = {} /\ BothExposeTeam(a)) =>
                 c = (IF TeamOf(a) = launcherTeam THEN "Friendly" ELSE "Enemy")
           /\ (tags = {} /\ ~BothExposeTeam(a)) => c = "World"

C18Witness ==
    /\ lastAim.call /\ CachedAimData.HitActor = "Goal"
    /\ BothExposeTeam("Goal") /\ TeamOf("Goal") # launcherTeam
    /\ CachedAimData.TraceResult = "Interactable"

\* the far end of the ray: the ray origin plus the ray direction times MaxTraceDistance
RayFarEnd == VecAdd(world.Origin, VecScale(ForwardVector, MaxTraceDistance))

\* C19: in every snapshot of RequestAimUpdate bDidHit is false exactly when the
\* classification is Nothing, and a miss has no target and has the far end of the ray
\* as aim location.
C19Theorem ==
    lastAim.call =>
        /\ ~CachedAimData.bDidHit <=> CachedAimData.TraceResult = "Nothing"
        /\ ~CachedAimData.bDidHit =>
              /\ CachedAimData.HitActor = None
              /\ CachedAimData.AimLocation = RayFarEnd

C19Witness ==
    /\ lastAim.call /\ ~CachedAimData.bDidHit
    /\ world.Origin = <<200, 0>> /\ CachedAimData.AimLocation = <<10200, 0>>

\* C20 as stated: the aim direction of every snapshot of RequestAimUpdate is a unit
\* vector, and it points from the owner's position to the aim location, also when the
\* ray misses and when the aim location is the owner's own position.
C20Original ==
    lastAim.call =>
        LET d == CachedAimData.AimDirection
            v == VecSub(CachedAimData.AimLocation, world.Origin)
        IN /\ d # ZeroVector /\ Gcd(Abs(d[1]), Abs(d[2])) = 1
           /\ v # ZeroVector =>
                 (d[1] * v[2] = d[2] * v[1] /\ DotProduct(d, v) > 0)

(* ---------------- C21: direction from an arbitrary point ---------------- *)
AskedDirection == lastQuery.op = "GetAimDirectionFromLocation"

\* C21 as stated: GetAimDirectionFromLocation returns the owner's forward vector when
\* the vector from the point to the cached aim location is zero or has a negative dot
\* product with the forward vector, and the direction towards the aim location in
\* every other case.
C21Original ==
    AskedDirection =>
        LET v == VecSub(CachedAimData.AimLocation, lastQuery.arg)
        IN IF v = ZeroVector \/ DotProduct(v, ForwardVector) < 0
           THEN lastQuery.result = ForwardVector
           ELSE lastQuery.result = GetSafeNormal(v)

(* ---------------- C22: queries are read-only ---------------- *)
Queries ==
    {"GetAimDirectionFromLocation", "IsAimingAt", "IsAimBlocked", "GetAimData",
     "CanFire", "CanFireType", "GetCooldownRemaining", "GetCooldownProgress"}

\* a dispatch that got past its gates asks the aim component for RequestAimUpdate
DispatchRefreshed(rec) ==
    /\ rec.call # "none"
    /\ ~rec.gates.noKind /\ ~rec.gates.cooling /\ ~rec.gates.blocked

\* C22: a step that answers one of the eight queries leaves the cached aim
\* snapshot, the blocked flag, the change-detection state and the last fire time as
\* they were and publishes no event; the snapshot and the blocked flag change only in
\* a step that runs RequestAimUpdate (called directly or by a dispatch past its gates).
C22Theorem ==
    [][/\ lastQuery'.op \in Queries =>
             /\ UNCHANGED <<CachedAimData, bAimIsBlocked, PreviousTargetActor,
                            PreviousAimLocation, LastFireTime>>
             /\ lastDispatch'.events = <<>> /\ lastAim'.events = <<>> /\ tickEvents' = <<>>
       /\ (CachedAimData' # CachedAimData \/ bAimIsBlocked' # bAimIsBlocked) =>
             (lastAim'.call \/ DispatchRefreshed(lastDispatch'))]_vars

\* a query answered while the world no longer is what the cached snapshot shows
C22Witness ==
    /\ lastQuery.op = "CanFire"
    /\ LastFireTime >= 0
    /\ CachedAimData.bDidHit # world.bHit

(* ---------------- C23: derived cooldown quantities ---------------- *)
\* the time of the last accepted dispatch, read off the projectile it spawned
LastAcceptedFire ==
    proj[numSpawned].expireAt - ClassLifetime[proj[numSpawned].cls]

ExpectedRemaining ==
    IF numSpawned = 0 THEN 0
    ELSE IF FireCooldown - (now - LastAcceptedFire) > 0
         THEN FireCooldown - (now - LastAcceptedFire)
         ELSE 0

TypeClass(n) == IF n \in DOMAIN ProjectileClassMap THEN ProjectileClassMap[n] ELSE None

\* the dispatch got past the class, cooldown and aim gates: it was accepted, or only
\* the spawn itself failed
PassedGates(rec) ==
    \/ rec.ret # 0
    \/ /\ Len(BlockedEvents(rec)) = 1
       /\ BlockedEvents(rec)[1][2] = "SpawnFailed"

\* C27: a FireProjectile call gets past the gates exactly when CanFire is true in
\* the state it is called in, a FireProjectileByType(n) call exactly when
\* CanFireType(n) is, and the answer of a query step is that same value.
C27Theorem ==
    [][/\ lastDispatch'.call = "FireProjectile" => (CanFire <=> PassedGates(lastDispatch'))
       /\ lastDispatch'.call = "FireProjectileByType" =>
             (CanFireType(lastDispatch'.TypeName) <=> PassedGates(lastDispatch'))
       /\ lastQuery'.op = "CanFire" =>
             (lastQuery'.result <=> GateReason(DefaultProjectileClass) = "Pass")
       /\ lastQuery'.op = "CanFireType" =>
             (lastQuery'.result <=> GateReason(TypeClass(lastQuery'.arg)) = "Pass")]_vars

\* FireProjectile refused for blocked aim alone, after an earlier accepted dispatch
C27Witness ==
    /\ lastDispatch.call = "FireProjectile" /\ RejectedWith("AimBlocked")
    /\ LastFireTime >= 0 /\ ~CanFire /\ DefaultProjectileClass # None

(* ---------------- C24: automatic aim updates ---------------- *)
\* C24: a tick of the aim component calls RequestAimUpdate never when auto-update is
\* off, at most once when it is on, and then only if the tick time that went by since
\* the previous automatic update (this tick's included) has reached the interval; a
\* tick that does not call leaves the cached aim data alone.
C24Theorem ==
    [][lastAim'.tick =>
          /\ lastAim'.calls <= 1
          /\ lastAim'.call <=> lastAim'.calls = 1
          /\ ~bAutoUpdateOnTick => ~lastAim'.call
          /\ lastAim'.call => tickSinceAuto + lastAim'.DeltaTime >= AutoUpdateInterval
          /\ ~lastAim'.call => UNCHANGED aimVars]_vars

\* an automatic update after two short frames, with interval 4 and a manual update
\* in between
C24Witness ==
    /\ lastAim.tick /\ lastAim.call /\ bAutoUpdateOnTick
    /\ AutoUpdateInterval = 4 /\ lastAim.DeltaTime = 1
    /\ AutoUpdateTimer = 0 /\ lastAim.events # <<>>

(* ---------------- C25: only unlocked spells are equipped ---------------- *)
EquipCalls ==
    {"SetEquippedSpell", "SetEquippedSpellByIndex", "CycleToNextSpell",
     "CycleToPreviousSpell"}

\* the spell a call asks for, NAME_None when the slot does not exist
RequestedSpell ==
    IF lastEquip.call = "SetEquippedSpell" THEN lastEquip.arg
    ELSE IF lastEquip.call = "SetEquippedSpellByIndex"
            /\ 0 <= lastEquip.arg /\ lastEquip.arg < Len(SpellOrder)
         THEN SpellOrder[lastEquip.arg + 1]
         ELSE NAME_None

EquipChanged == EquippedSpellType # lastEquip.Old

\* C25: after SetEquippedSpell, SetEquippedSpellByIndex, CycleToNextSpell or
\* CycleToPreviousSpell the equipped spell is either the one before, with no event
\* published, or a spell the collection reports as unlocked, announced by exactly one
\* equipped-spell-changed event; a request for a locked spell or a slot out of range
\* returns false and changes nothing, and a request for the spell already equipped
\* returns true and publishes nothing.
C25Theorem ==
    lastEquip.call \in EquipCalls =>
        /\ EquipChanged =>
              /\ HasSpell(EquippedSpellType)
              /\ lastEquip.events =
                    << <<"OnEquippedSpellChanged", EquippedSpellType,
                         FindSpellIndex(EquippedSpellType)>> >>
        /\ ~EquipChanged => lastEquip.events = <<>>
        /\ lastEquip.call \in {"SetEquippedSpell", "SetEquippedSpellByIndex"} =>
              /\ ~HasSpell(RequestedSpell) => (lastEquip.ret = FALSE /\ ~EquipChanged)
              /\ HasSpell(RequestedSpell) =>
                    (lastEquip.ret = TRUE /\ EquippedSpellType = RequestedSpell)
              /\ (HasSpell(RequestedSpell) /\ RequestedSpell = lastEquip.Old) =>
                    lastEquip.events = <<>>

\* cycling forward skips a locked slot and wraps to an unlocked one
C25Witness ==
    /\ lastEquip.call = "CycleToNextSpell" /\ EquipChanged
    /\ SpellOrder = <<"Flame", "Ice", "Lightning">>
    /\ lastEquip.Old = "Lightning" /\ EquippedSpellType = "Ice"
    /\ unlockedSpells = {"Ice"}

(* ---------------- C26: one announcement per spell type ---------------- *)
Announcements(delegate, n) ==
    SelectSeq(spellAnnouncements, LAMBDA e : e[1] = delegate /\ e[2] = n)

\* C26: whatever callbacks arrived so far, each collected non-None type was announced
\* exactly once on OnSpellCollectedGlobal and once on OnSpellTypeCollected, no other
\* type was announced, the k-th announced type carried the total k, the name of the
\* last callback is collected unless it is None, and None is neither collected nor
\* announced.
C26Theorem ==
    /\ NAME_None \notin CollectedSpells
    /\ \A d \in {"OnSpellCollectedGlobal", "OnSpellTypeCollected"} :
          /\ Announcements(d, NAME_None) = <<>>
          /\ \A n \in SpellNames :
                Len(Announcements(d, n)) = IF n \in CollectedSpells THEN 1 ELSE 0
    /\ Len(spellAnnouncements) = 2 * Cardinality(CollectedSpells)
    /\ \A k \in 1..Cardinality(CollectedSpells) :
          /\ spellAnnouncements[2 * k - 1][1] = "OnSpellCollectedGlobal"
          /\ spellAnnouncements[2 * k][1] = "OnSpellTypeCollected"
          /\ spellAnnouncements[2 * k - 1][3] = k /\ spellAnnouncements[2 * k][3] = k
          /\ spellAnnouncements[2 * k - 1][2] = spellAnnouncements[2 * k][2]
    /\ (lastSpellCall.call # "none" /\ lastSpellCall.SpellTypeName # NAME_None) =>
          lastSpellCall.SpellTypeName \in CollectedSpells

\* the component callback arrives for a type the pickup callback announced already
C26Witness ==
    /\ lastSpellCall.call = "HandleComponentSpellCollected"
    /\ lastSpellCall.SpellTypeName = "Flame" /\ lastSpellCall.events = <<>>
    /\ CollectedSpells = {"Flame", "Ice"}
    /\ spellAnnouncements[1][2] = "Flame"

(* ======================= C28 ======================= *)
\* the entries of one kind in a projectile's log, in order
Entries(pr, name) == SelectSeq(pr.log, LAMBDA e : e[1] = name)

\* the step in which projectile p resolves a hit
ResolvesHit(p) ==
    Count(proj[p], "OnProjectileHit") = 0 /\ Count(proj'[p], "OnProjectileHit") = 1

\* the damage call a resolving hit of p owes the struck entity: the damage
\* amount, and the launcher and the pawn whose controller it names, as far as
\* they exist at the hit
OwedDamageCall(p) ==
    <<"TakeDamage", lastOverlap'.OtherActor, proj'[p].Damage,
      WeakGet(InstigatorOf("Launcher"))', WeakGet("Launcher")'>>

EffectOrder(pr) == [i \in DOMAIN pr.log |-> pr.log[i][1]]

\* C29: on a resolving hit the damage is applied first, then the impact effect
\* is triggered, then the projectile-hit event is published, and only then is
\* the projectile destroyed and its projectile-terminated event published.
C29Theorem ==
    \A p \in ProjIds :
        Count(proj[p], "OnProjectileHit") > 0 =>
            EffectOrder(proj[p]) \in
                { <<"ApplyDamage", "TakeDamage", "SpawnImpactEffect",
                    "OnProjectileHit", "OnProjectileDestroyed">>,
                  <<"ApplyDamage", "SpawnImpactEffect",
                    "OnProjectileHit", "OnProjectileDestroyed">> }

\* a projectile has resolved a hit that dealt damage, and all four effects of
\* the hit are in its log
C29Witness ==
    \E p \in ProjIds :
        /\ proj[p].cause = "hit" /\ ~proj[p].alive
        /\ Count(proj[p], "TakeDamage") = 1
        /\ Count(proj[p], "SpawnImpactEffect") = 1
        /\ Count(proj[p], "OnProjectileHit") = 1
        /\ Count(proj[p], "OnProjectileDestroyed") = 1

(* ======================= C30 ======================= *)
\* the time a spawned projectile was dispatched: its lifetime timer was set then
SpawnTime(pr) == pr.expireAt - ClassLifetime[pr.cls]

\* C30: any two accepted dispatches of the controller are separated by at least
\* the configured cooldown, also when one is made from a listener of an event
\* published during the other; a nested dispatch never spawns a second
\* projectile inside the same cooldown window.
C30Original ==
    \A p, q \in ProjIds :
        (p < q /\ proj[p].spawned /\ proj[q].spawned) =>
            SpawnTime(proj[q]) - SpawnTime(proj[p]) >= FireCooldown

(* ======================= C31 ======================= *)
\* the blocked state of the cached snapshot: a ray hit closer than MinAimDistance
SnapshotBlocked == CachedAimData.bDidHit /\ CachedAimData.HitDistance < MinAimDistance

\* C31: with respect-blocked-aim enabled and an aim component attached, no
\* projectile is spawned by a dispatch whose own forced fresh aim resolution
\* finds the aim blocked.
C31Original ==
    (Accepted /\ bRespectAimBlocked /\ AimComponent) => ~SnapshotBlocked

(* ======================= C32 ======================= *)
\* the aim component reports blocked, nothing obstructs the aim any more, and the
\* cooldown has elapsed
BlockedButClear ==
    /\ bRespectAimBlocked /\ AimComponent /\ ~bAutoUpdateOnTick
    /\ bAimIsBlocked /\ ~world.bHit
    /\ now - LastFireTime >= FireCooldown
    /\ numSpawned < MaxProjectiles

\* C32: blocked aim is recoverable by firing alone: once the aim component
\* reports blocked and the world no longer obstructs the aim, repeated dispatch
\* attempts with a resolvable kind after the cooldown eventually yield an
\* accepted dispatch, without any other caller of RequestAimUpdate. The player
\* who keeps firing is the behaviour in which a dispatch is the latest call
\* again and again.
C32Original == ([]<>Dispatched) => (BlockedButClear ~> Accepted)

(* ======================= C33 ======================= *)
\* no dispatch of this controller has been accepted yet
NeverFired == LastFireTime = InitialLastFireTime

\* C33: a controller that has never fired is Ready for every configured
\* cooldown duration: its first dispatch attempt, at any time t >= 0, is never
\* rejected with OnCooldown, and before the first fire GetCooldownRemaining is 0
\* and GetCooldownProgress is 1.
C33Original ==
    NeverFired =>
        /\ ~RejectedWith("OnCooldown")
        /\ GetCooldownRemaining = 0
        /\ GetCooldownProgress[1] = GetCooldownProgress[2]

(* ======================= C34 ======================= *)
\* the cooldown-state-changed notifications the latest call published
CooldownNotes == SelectSeq(lastDispatch.events \o tickEvents, IsCooldownEvent)

\* C34: cooldown-state-changed notifications strictly alternate over any
\* interleaving of accepted dispatches and controller ticks: 'true' is never
\* followed by another 'true' without a 'false' in between, nor 'false' by
\* 'false'. bWasOnCooldown is written with every notification and holds the
\* value announced last (false before the first one).
C34Original ==
    [][\A i \in DOMAIN CooldownNotes' :
          /\ CooldownNotes'[i][2] # bWasOnCooldown
          /\ CooldownNotes'[i][2] = bWasOnCooldown']_vars

(* ======================= C35 ======================= *)
\* C35: in every state after the aim component has started, including the one
\* right after the initial trace of BeginPlay, the flag IsAimBlocked returns
\* equals (bDidHit and HitDistance < MinAimDistance) of the cached snapshot.
C35Original == bAimIsBlocked <=> SnapshotBlocked

(* ======================= C36 ======================= *)
\* the square of the location-change threshold
ThresholdSquared == LocationUpdateThreshold * LocationUpdateThreshold

FireInput == lastDispatch.call = "HandleFireInput"

\* C37: every player fire input received while a spell is equipped (and the
\* combat component is present) leads to exactly one published outcome, either
\* fire-succeeded or fire-blocked with its reason, also when the input arrives
\* during the cooldown or while the aim is blocked.
C37Original ==
    (FireInput /\ EquippedSpellType # NAME_None) =>
        Len(FiredEvents(lastDispatch)) + Len(BlockedEvents(lastDispatch)) = 1

(* ======================= C38 ======================= *)
\* the actors a projectile has called the damage sink on
Damaged(pr) == {pr.log[i][2] : i \in {j \in DOMAIN pr.log : pr.log[j][1] = "TakeDamage"}}

\* C38: self-ignore and the friendly-fire exemption hold for a projectile fired
\* by a bat's Attack as for any other: it never applies damage to the bat that
\* fired it nor to an entity whose team identity equals the bat's team.
C38Original ==
    \A p \in ProjIds :
        \A a \in Damaged(proj[p]) : a # "Launcher" /\ ~TeamsMatch(a)

(* ======================= C39 ======================= *)
\* C39: the match-ended event is published at most once per match: after a team
\* reached the winning score or the match timer expired, later goal and timer
\* callbacks publish no further match-ended event, so the winner reported first is
\* never followed by another report
C39Original == Len(matchEnded) <= 1

====
